---- MODULE Spec2Model ----
(***************************************************************************)
(* A model of make/modbus_rtu_rc.py: the Modbus RTU decoder generator.     *)
(* The description tree is the input; CodeGenerator folds every command    *)
(* into a prefix trie of states, then generate_code renders it.            *)
(***************************************************************************)
EXTENDS Integers, Sequences, FiniteSets, TLC

VARIABLES tree, gen, treeB, genB, dec

vars == <<tree, gen, treeB, genB, dec>>

(***************************************************************************)
(* Small helpers on sequences and sets.                                    *)
(***************************************************************************)
Range_(s) == {s[i] : i \in DOMAIN s}

Max2(a, b) == IF a >= b THEN a ELSE b

\* All sequences over S of length 0..n.
SeqsUpTo(S, n) == UNION {[1..k -> S] : k \in 0..n}

\* All sequences of length 0..n over S without repetition.
InjSeqsUpTo(S, n) ==
    {q \in SeqsUpTo(S, n) : \A i, j \in DOMAIN q : i # j => q[i] # q[j]}

None == <<>>
Some(v) == <<v>>

(***************************************************************************)
(* Integral / Matcher classes.                                             *)
(***************************************************************************)
bits(cls) ==
    CASE cls \in {"u8", "s8", "RuntimeDeviceAddress"} -> 8
      [] cls \in {"u16", "s16", "Crc"} -> 16
      [] cls \in {"u32", "s32", "f32"} -> 32

size(cls) == bits(cls) \div 8

UnsignedMatcher(cls) == cls \in {"u8", "u16", "u32", "Crc", "RuntimeDeviceAddress"}

SignedMatcher(cls) == cls \in {"s8", "s16", "s32"}

max(cls) == IF UnsignedMatcher(cls) THEN 2^bits(cls) - 1 ELSE 2^(bits(cls) - 1) - 1

min(cls) == IF UnsignedMatcher(cls) THEN 0 ELSE -(2^(bits(cls) - 1))

\* Matcher.check of the integer classes (f32 accepts floats only).
check(cls, value) ==
    IF UnsignedMatcher(cls) THEN 0 <= value /\ value <= max(cls)
    ELSE IF SignedMatcher(cls) THEN min(cls) <= value /\ value <= max(cls)
    ELSE FALSE

(***************************************************************************)
(* A command is a tuple of items: matchers, then an optional string.  An   *)
(* item carries t = "m" (a Matcher) or t = "s" (a str).  A matcher's value *)
(* is None (kind "None", vals <<>>), an int (kind "Exact", vals <<v>>), a  *)
(* Range (kind "Range", vals <<from, to>>) or a list (kind "List").        *)
(* alias "" stands for alias None (both are falsy in State.next).          *)
(***************************************************************************)
Matcher(cls, kind, vals, alias) ==
    [t |-> "m", cls |-> cls, kind |-> kind, vals |-> vals, alias |-> alias, s |-> ""]

Str(name) ==
    [t |-> "s", cls |-> "str", kind |-> "", vals |-> <<>>, alias |-> "", s |-> name]

IsStr(item) == item.t = "s"

IsIntegral(item) == item.t = "m"

\* Matcher.__init__: which argument lists construct without a ValueError.
MatcherInitOk(m) ==
    CASE m.kind = "None" -> m.vals = <<>>
      [] m.kind = "Exact" -> Len(m.vals) = 1 /\ check(m.cls, m.vals[1])
      [] m.kind = "Range" -> Len(m.vals) = 2 /\ check(m.cls, m.vals[1]) /\ check(m.cls, m.vals[2])
      [] m.kind = "List" -> \A i \in DOMAIN m.vals : check(m.cls, m.vals[i])

\* A comparison that would also compare the alias.
MatcherEqAlias(a, b) == a.cls = b.cls /\ a.kind = b.kind /\ a.vals = b.vals /\ a.alias = b.alias

\* Matcher.__eq__: class, type of value, value; the alias is not compared.
Matcher__eq__(a, b) == a.cls = b.cls /\ a.kind = b.kind /\ a.vals = b.vals

\* Matcher.fits(item): item is the parameter's class.
fits(m, param) ==
    IF size(param) >= size(m.cls) THEN TRUE
    ELSE IF m.kind = "Range" THEN min(param) <= m.vals[1] /\ max(param) >= m.vals[2]
    ELSE IF m.kind = "List"
         THEN \A i \in DOMAIN m.vals : ~(m.vals[i] < min(param) \/ m.vals[i] > max(param))
    ELSE TRUE

\* Matcher.to_code, Crc.to_code, RuntimeDeviceAddress.to_code: the guard on c.
Matcher_to_code(m) ==
    CASE m.cls = "Crc" -> [op |-> "true", a |-> 0, b |-> 0, set |-> {}]
      [] m.cls = "RuntimeDeviceAddress" -> [op |-> "eq_device_address", a |-> 0, b |-> 0, set |-> {}]
      [] m.kind = "Range" ->
            IF m.vals[1] = 0 /\ UnsignedMatcher(m.cls)
            THEN [op |-> "le", a |-> 0, b |-> m.vals[2], set |-> {}]
            ELSE [op |-> "ge_le", a |-> m.vals[1], b |-> m.vals[2], set |-> {}]
      [] m.kind = "List" -> [op |-> "one_of", a |-> 0, b |-> 0, set |-> Range_(m.vals)]
      [] m.kind = "None" -> [op |-> "none", a |-> 0, b |-> 0, set |-> {}]
      [] OTHER -> [op |-> "eq", a |-> m.vals[1], b |-> 0, set |-> {}]

(***************************************************************************)
(* MEI object codes and their categories.                                  *)
(***************************************************************************)
VENDOR_NAME == 0
PRODUCT_CODE == 1
MAJOR_MINOR_REVISION == 2
VENDOR_URL == 3
PRODUCT_NAME == 4
MODEL_NAME == 5
USER_APPLICATION_NAME == 6
PRIVATE_OBJECTS_0 == 128
BASIC_DEVICE_IDENTIFICATION == 1
REGULAR_DEVICE_IDENTIFICATION == 2
EXTENDED_DEVICE_IDENTIFICATION == 3

MEI_OBJECT_CATEGORY ==
    [k \in (0..6) \cup (128..135) |->
        IF k <= MAJOR_MINOR_REVISION THEN BASIC_DEVICE_IDENTIFICATION
        ELSE IF k <= USER_APPLICATION_NAME THEN REGULAR_DEVICE_IDENTIFICATION
        ELSE EXTENDED_DEVICE_IDENTIFICATION]

(***************************************************************************)
(* Text.  A root key is a sequence of one-character strings, so that the   *)
(* regular expressions and int(text, 0) are computed on the characters.    *)
(***************************************************************************)
Digits == <<"0", "1", "2", "3", "4", "5", "6", "7", "8", "9">>

LowerHex == Digits \o <<"a", "b", "c", "d", "e", "f">>

UpperHex == Digits \o <<"A", "B", "C", "D", "E", "F">>

IsDigit(c) == c \in Range_(Digits)

IsHexDigit(c) == c \in Range_(LowerHex) \cup Range_(UpperHex)

HexValue(c) ==
    IF c \in Range_(LowerHex) THEN (CHOOSE i \in DOMAIN LowerHex : LowerHex[i] = c) - 1
    ELSE (CHOOSE i \in DOMAIN UpperHex : UpperHex[i] = c) - 1

DEVICE == <<"d", "e", "v", "i", "c", "e">>

DEVICE_AT == DEVICE \o <<"@">>

startswith(text, prefix) ==
    Len(text) >= Len(prefix) /\ SubSeq(text, 1, Len(prefix)) = prefix

\* The text from position i on.
From(text, i) == SubSeq(text, i, Len(text))

\* The longest prefix of text made of hexadecimal digits ([0-9a-fA-F]*).
RECURSIVE HexRun(_)
HexRun(text) ==
    IF text # <<>> /\ IsHexDigit(Head(text)) THEN <<Head(text)>> \o HexRun(Tail(text)) ELSE <<>>

\* re.match(r"^device(@\d+)?$", key)
BufferSizeKeyMatch(key) ==
    \/ key = DEVICE
    \/ /\ startswith(key, DEVICE_AT)
       /\ Len(key) > Len(DEVICE_AT)
       /\ \A i \in (Len(DEVICE_AT) + 1)..Len(key) : IsDigit(key[i])

\* DEVICE_ADDR_RE matched at position i of key: group(1), or None.
\* (?:0x)? is tried first; when no hexadecimal digit follows "0x" the
\* expression backtracks and matches the digits without the prefix.
AddrMatchAt(key, i) ==
    IF ~startswith(From(key, i), DEVICE_AT) THEN None
    ELSE LET rest == From(key, i + Len(DEVICE_AT))
             prefixed == startswith(rest, <<"0", "x">>) /\ HexRun(From(rest, 3)) # <<>>
         IN  IF prefixed THEN Some(<<"0", "x">> \o HexRun(From(rest, 3)))
             ELSE IF HexRun(rest) # <<>> THEN Some(HexRun(rest))
             ELSE None

\* re.search(DEVICE_ADDR_RE, key): the leftmost match's group(1), or None.
DEVICE_ADDR_RE_search(key) ==
    LET hits == {i \in DOMAIN key : AddrMatchAt(key, i) # None}
    IN  IF hits = {} THEN None
        ELSE AddrMatchAt(key, CHOOSE i \in hits : \A j \in hits : i <= j)

RECURSIVE DigitsValue(_, _, _)
DigitsValue(text, base, acc) ==
    IF text = <<>> THEN acc
    ELSE DigitsValue(Tail(text), base, acc * base + HexValue(Head(text)))

\* A reading that would know decimal digits only.
IntBase10Only(text) ==
    IF \A i \in DOMAIN text : IsDigit(text[i]) THEN Some(DigitsValue(text, 10, 0)) ELSE None

\* int(text, 0) on a text of DEVICE_ADDR_RE's group(1): Some(value), or
\* None for a ValueError.  Base 0 reads the 0x and 0b prefixes, and refuses
\* a decimal literal with a leading zero unless it is all zeros.
IntBase0(text) ==
    IF startswith(text, <<"0", "x">>) /\ Len(text) > 2
    THEN Some(DigitsValue(From(text, 3), 16, 0))
    ELSE IF (startswith(text, <<"0", "b">>) \/ startswith(text, <<"0", "B">>))
    THEN IF Len(text) > 2 /\ \A i \in 3..Len(text) : text[i] \in {"0", "1"}
         THEN Some(DigitsValue(From(text, 3), 2, 0))
         ELSE None
    ELSE IF \A i \in DOMAIN text : IsDigit(text[i])
    THEN IF Len(text) > 1 /\ text[1] = "0" /\ \E i \in DOMAIN text : text[i] # "0"
         THEN None
         ELSE Some(DigitsValue(text, 10, 0))
    ELSE None

\* str(n) for n >= 0, as characters.
RECURSIVE DecimalText(_)
DecimalText(n) ==
    IF n < 10 THEN <<Digits[n + 1]>> ELSE DecimalText(n \div 10) \o <<Digits[(n % 10) + 1]>>

RECURSIVE HexText(_, _)
HexText(n, table) ==
    IF n < 16 THEN <<table[n + 1]>> ELSE HexText(n \div 16, table) \o <<table[(n % 16) + 1]>>

\* The ways of writing n as a 0x literal: lower or upper case digits,
\* minimal or padded to two digits.
HexLiteral(n, style) ==
    LET table == IF style \in {"lower", "lower2"} THEN LowerHex ELSE UpperHex
        body == HexText(n, table)
        padded == IF style \in {"lower2", "upper2"} /\ Len(body) < 2 THEN <<"0">> \o body ELSE body
    IN  <<"0", "x">> \o padded

(***************************************************************************)
(* Callback names and str.upper() on them.                                 *)
(***************************************************************************)
CallbackNames ==
    {"on_a", "on_b", "on_c", "on_p", "on_w", "on_zz", "on_read", "NOTHING",
     "on_report_slave_id", "on_read_device_identification", "on_diagnostics"}

upper(name) ==
    CASE name = "on_a" -> "ON_A"
      [] name = "on_b" -> "ON_B"
      [] name = "on_c" -> "ON_C"
      [] name = "on_p" -> "ON_P"
      [] name = "on_w" -> "ON_W"
      [] name = "on_zz" -> "ON_ZZ"
      [] name = "on_read" -> "ON_READ"
      [] name = "NOTHING" -> "NOTHING"
      [] name = "on_report_slave_id" -> "ON_REPORT_SLAVE_ID"
      [] name = "on_read_device_identification" -> "ON_READ_DEVICE_IDENTIFICATION"
      [] name = "on_diagnostics" -> "ON_DIAGNOSTICS"

(***************************************************************************)
(* States and transitions.  A state is referred to by its index in the     *)
(* generator's state list (every State and OperationState is appended to   *)
(* it on creation), which stands for the object's identity.                *)
(***************************************************************************)
Transition(matcher, next_state) ==
    [matcher |-> matcher, next |-> next_state, set_crc |-> FALSE]

NoOp == [kind |-> "none", name |-> "", prototype |-> <<>>, chain |-> <<>>]

Operation(name, prototype, chain) ==
    [kind |-> "Operation", name |-> name, prototype |-> prototype, chain |-> chain]

NoOperation == [kind |-> "NoOperation", name |-> "", prototype |-> <<>>, chain |-> <<>>]

\* A state that would stay at position 0 whatever it is given.
State_at_zero(name, pos, mode) ==
    [name |-> name, pos |-> 0, mode |-> mode, transition |-> <<>>,
     isop |-> FALSE, op |-> NoOp]

State(name, pos, mode) ==
    [name |-> name, pos |-> pos, mode |-> mode, transition |-> <<>>,
     isop |-> FALSE, op |-> NoOp]

OperationState(op, name, pos) ==
    [name |-> name, pos |-> pos, mode |-> "slave", transition |-> <<>>,
     isop |-> TRUE, op |-> op]

\* A next that would count the transition being added.
State_next_counting(st, alias) ==
    st.name \o "_" \o (IF alias # "" THEN alias ELSE ToString(Len(st.transition) + 2))

\* State.next(alias): the name of the next state.
State_next(st, alias) ==
    st.name \o "_" \o (IF alias # "" THEN alias ELSE ToString(Len(st.transition) + 1))

\* State.has(matcher)
has(st, matcher) ==
    \E i \in DOMAIN st.transition : Matcher__eq__(st.transition[i].matcher, matcher)

\* State.get_next_state_of(matcher): the first equal transition's target.
get_next_state_of(st, matcher) ==
    LET hits == {i \in DOMAIN st.transition : Matcher__eq__(st.transition[i].matcher, matcher)}
    IN  st.transition[CHOOSE i \in hits : \A j \in hits : i <= j].next

\* State.add(transition) on state number idx of the list.
add(states, idx, transition) ==
    [states EXCEPT ![idx].transition = Append(@, transition)]

\* The largest device address process_devices accepts.
MaxAddress == 254

(***************************************************************************)
(* CodeGenerator.  The generator is one record: its fields, the place of   *)
(* the build in the tree (dev, cmd), and what generate_code emitted.       *)
(***************************************************************************)
NoIdentification == [level |-> 0, counts |-> <<>>, packs |-> <<>>]

NoEmission ==
    [device_address |-> "", set_device_address |-> FALSE, bufsize |-> 0, calls |-> <<>>,
     report_slave_id |-> FALSE, read_device_identification |-> NoIdentification]

\* What main has written: the file of --output and the lines of stdout.
NoOutput == [done |-> FALSE, file |-> None, stdout |-> <<>>]

NewGenerator ==
    [pc |-> "start", err |-> "", msg |-> "",
     states |-> <<>>, callbacks |-> <<>>, max_buf_size |-> 0,
     device_address |-> None, identification |-> {}, mode |-> "slave",
     conformity_level |-> 0, on_ready_reply_callback |-> None,
     dev |-> 0, cmd |-> 1, device_state |-> 0, address_matcher |-> Str(""),
     emitted |-> NoEmission, out |-> NoOutput]

\* An exception ends the run where it is raised (pc stays at the phase that
\* raised): kind is the exception's class.
Raise(g, kind, msg) == [g EXCEPT !.err = kind, !.msg = msg]

Failed(g) == g.err # ""

\* The while loop of new_state: the first of name, name_1, name_2, ... unused.
RECURSIVE alt_name(_, _, _, _)
alt_name(names, new_state_name, candidate, count) ==
    IF candidate \in names
    THEN alt_name(names, new_state_name, new_state_name \o "_" \o ToString(count), count + 1)
    ELSE candidate

\* CodeGenerator.new_state: the state list with the new state appended (the
\* new state's index is the list's new length).
new_state(g, new_state_name, pos) ==
    LET names == {g.states[i].name : i \in DOMAIN g.states}
    IN  Append(g.states, State(alt_name(names, new_state_name, new_state_name, 1), pos, g.mode))

\* An append that would reuse the operation state of the same name.
AppendSharedOperationState(states, op, name) ==
    IF \E i \in DOMAIN states : states[i].isop /\ states[i].name = name
    THEN [states |-> states,
          idx |-> CHOOSE i \in DOMAIN states : states[i].isop /\ states[i].name = name]
    ELSE [states |-> Append(states, OperationState(op, name, 0)), idx |-> Len(states) + 1]

\* Lines 1189-1190: a new operation state is appended, named as given.
AppendOperationState(states, op, name) ==
    [states |-> Append(states, OperationState(op, name, 0)), idx |-> Len(states) + 1]

\* A transition to the CRC state that would not be flagged.
to_crc_transition_unflagged(matcher, next_state) == Transition(matcher, next_state)

\* Lines 1178-1179: the transition to the CRC state, flagged set_crc.
to_crc_transition(matcher, next_state) ==
    [Transition(matcher, next_state) EXCEPT !.set_crc = TRUE]

\* The for loop of process_sequence, from item number index of cmd (1-based)
\* with the walk at state number state.
RECURSIVE process_sequence_loop(_, _, _, _, _)
process_sequence_loop(g, address_matcher, state, cmd, index) ==
    IF index > Len(cmd) THEN g
    ELSE
    LET matcher == cmd[index]
        st == g.states[state]
    IN
    IF IsStr(matcher)
    THEN Raise(g, "AttributeError", "'str' object has no attribute 'size'")
    ELSE IF has(st, matcher)
    THEN process_sequence_loop(g, address_matcher, get_next_state_of(st, matcher), cmd, index + 1)
    ELSE IF IsStr(cmd[index + 1])
    THEN LET command_name == cmd[Len(cmd)].s
             s1 == new_state(g, State_next(st, "_" \o upper(command_name) \o "__CRC"),
                             st.pos + size(matcher.cls))
             crc_state == Len(s1)
             s2 == add(s1, state, to_crc_transition(matcher, crc_state))
             op == IF command_name # "NOTHING"
                   THEN Operation(command_name, g.callbacks[command_name],
                                  <<address_matcher>> \o SubSeq(cmd, 1, Len(cmd) - 1))
                   ELSE NoOperation
             r == AppendOperationState(s2, op, "RDY_TO_CALL__" \o upper(command_name))
             crc_matcher == Matcher("Crc", "None", <<>>, "")
         IN  [g EXCEPT !.states = add(r.states, crc_state, Transition(crc_matcher, r.idx))]
    ELSE LET s1 == new_state(g, State_next(st, matcher.alias), st.pos + size(matcher.cls))
             next_state == Len(s1)
             s2 == add(s1, state, Transition(matcher, next_state))
         IN  process_sequence_loop([g EXCEPT !.states = s2], address_matcher, next_state,
                                   cmd, index + 1)

\* A process_sequence that would let the lookup of the callback fail.
process_sequence_lookup(g, address_matcher, state, cmd) ==
    IF cmd = <<>> THEN Raise(g, "IndexError", "tuple index out of range")
    ELSE LET callback == cmd[Len(cmd)] IN
         IF ~IsStr(callback)
         THEN process_sequence_loop(g, address_matcher, state, cmd \o <<Str("NOTHING")>>, 1)
         ELSE IF callback.s \notin DOMAIN g.callbacks
         THEN Raise(g, "KeyError", callback.s)
         ELSE process_sequence_loop(g, address_matcher, state, cmd, 1)

\* CodeGenerator.process_sequence(address_matcher, state, cmd)
process_sequence(g, address_matcher, state, cmd) ==
    IF cmd = <<>> THEN Raise(g, "IndexError", "tuple index out of range")
    ELSE LET callback == cmd[Len(cmd)] IN
         IF ~IsStr(callback)
         THEN process_sequence_loop(g, address_matcher, state, cmd \o <<Str("NOTHING")>>, 1)
         ELSE IF callback.s \notin DOMAIN g.callbacks
         THEN Raise(g, "ParsingException", "Unknown callback")
         ELSE process_sequence_loop(g, address_matcher, state, cmd, 1)

(***************************************************************************)
(* CodeGenerator.__init__ up to the call of process_devices.               *)
(***************************************************************************)
\* The matchers a description is written with.
u8(value) == Matcher("u8", "Exact", <<value>>, "")

VALID_C_FUNCTION_NAME(name) == name \in CallbackNames

\* sum(item.size for item in cmd if isinstance(item, Integral))
RECURSIVE cmd_size(_)
cmd_size(cmd) ==
    IF cmd = <<>> THEN 0
    ELSE (IF IsIntegral(Head(cmd)) THEN size(Head(cmd).cls) ELSE 0) + cmd_size(Tail(cmd))

\* Lines 897-902: the largest command of the keys matching ^device(@\d+)?$.
largest_command(t) ==
    LET counted == {d \in DOMAIN t.devices : BufferSizeKeyMatch(t.devices[d].key)}
        sizes == UNION {{cmd_size(t.devices[d].cmds[c]) : c \in DOMAIN t.devices[d].cmds} :
                          d \in counted}
    IN  IF sizes = {} THEN 0 ELSE CHOOSE x \in sizes : \A y \in sizes : y <= x

\* The three commands of the identification extension (lines 935-975).
REPORT_SLAVE_ID_CMD ==
    <<Matcher("u8", "Exact", <<17>>, "REPORT_SLAVE_ID"), Str("on_report_slave_id")>>

READ_DEVICE_IDENTIFICATION_CMD ==
    <<Matcher("u8", "Exact", <<43>>, "ENCAPSULATED_INTERFACE_TRANSPORT"),
      Matcher("u8", "Exact", <<14>>, "READ_DEVICE_IDENTIFICATION"),
      Matcher("u8", "Range", <<1, 3>>, "READ_DEVICE_ID_CODE"),
      Matcher("u8", "None", <<>>, "OBJECT_ID"),
      Str("on_read_device_identification")>>

DIAGNOSTICS_CMD ==
    <<Matcher("u8", "Exact", <<8>>, "DIAGNOSTICS"),
      Matcher("u16", "None", <<>>, "SUBFUNCTION"),
      Matcher("u16", "None", <<>>, "DATA"),
      Str("on_diagnostics")>>

\* device.append(cmd) on device number d of the tree.
device_append(t, d, cmd) == [t EXCEPT !.devices[d].cmds = Append(@, cmd)]

\* A level that would be the smallest category declared.
conformity_of_smallest(identification) ==
    LET cats == {MEI_OBJECT_CATEGORY[k] : k \in identification}
    IN  IF cats = {} THEN 0 ELSE CHOOSE x \in cats : \A y \in cats : x <= y

\* max(category) over the declared identification keys.
conformity_of(identification) ==
    LET cats == {MEI_OBJECT_CATEGORY[k] : k \in identification}
    IN  IF cats = {} THEN 0 ELSE CHOOSE x \in cats : \A y \in cats : y <= x

\* Lines 924-978.  Returns the tree (commands are appended to it) and the
\* generator.
inject_identification(t, g) ==
    LET at == {d \in DOMAIN t.devices : startswith(t.devices[d].key, DEVICE_AT)}
        bare == {d \in DOMAIN t.devices : t.devices[d].key = DEVICE}
    IN
    IF at = {} /\ bare = {}
    THEN [t |-> t, g |-> Raise(g, "ParsingException", "identification requires a 'device' node")]
    ELSE
    LET d == IF at # {} THEN CHOOSE i \in at : \A j \in at : i <= j ELSE CHOOSE i \in bare : TRUE
        t1 == device_append(t, d, REPORT_SLAVE_ID_CMD)
        g1 == [g EXCEPT !.callbacks = ("on_report_slave_id" :> <<>>) @@ @]
    IN
    IF \E k \in g.identification : k \notin DOMAIN MEI_OBJECT_CATEGORY
    THEN [t |-> t1, g |-> Raise(g1, "ParsingException", "Invalid identification key")]
    ELSE
    LET t3 == device_append(device_append(t1, d, READ_DEVICE_IDENTIFICATION_CMD), d,
                            DIAGNOSTICS_CMD)
        g3 == [g1 EXCEPT !.conformity_level = conformity_of(g.identification),
                         !.callbacks = ("on_diagnostics" :> <<>>)
                                       @@ ("on_read_device_identification" :> <<"u8", "u8">>)
                                       @@ @]
    IN  [t |-> t3, g |-> [g3 EXCEPT !.pc = "process_devices"]]

\* Lines 873-978.
CodeGenerator__init__(t, g) ==
    LET g1 == [g EXCEPT !.identification = t.identification] IN
    IF \E cb \in DOMAIN t.callbacks : ~VALID_C_FUNCTION_NAME(cb)
    THEN [t |-> t, g |-> Raise(g1, "ParsingException", "Callback name is not a valid C function name")]
    ELSE
    LET floor == IF t.buffer_size = None THEN 0 ELSE t.buffer_size[1]
        g2 == [g1 EXCEPT !.callbacks = t.callbacks,
                         !.max_buf_size = Max2(largest_command(t) + 4, floor),
                         !.mode = t.mode]
    IN
    IF t.mode \notin {"slave", "master"}
    THEN [t |-> t, g |-> Raise(g2, "ParsingException", "The mode must be 'master' or 'slave'")]
    ELSE
    LET g3 == [g2 EXCEPT !.on_ready_reply_callback = t.on_received] IN
    IF t.mode = "slave" /\ PRODUCT_CODE \in t.identification
    THEN inject_identification(t, g3)
    ELSE [t |-> t, g |-> [g3 EXCEPT !.pc = "process_devices"]]

(***************************************************************************)
(* CodeGenerator.process_devices.                                          *)
(***************************************************************************)
\* Line 1127: the initial state.
process_devices_begin(g) ==
    [g EXCEPT !.states = new_state(g, "DEVICE_ADDRESS", 0), !.pc = "devices"]

\* Lines 1131-1133 and 1148-1150: the device state and its transition out of
\* the initial state (state number 1).
enter_device(g, d, name, address_class, address_vals) ==
    LET s1 == new_state(g, name, 1)
        device_state == Len(s1)
        address_matcher ==
            Matcher(address_class, IF address_vals = <<>> THEN "None" ELSE "Exact",
                    address_vals, s1[device_state].name)
    IN  [g EXCEPT !.states = add(s1, 1, Transition(address_matcher, device_state)),
                  !.dev = d, !.cmd = 1,
                  !.device_state = device_state, !.address_matcher = address_matcher]

\* One iteration of the loop over tree.items(), before its commands.
process_device(t, g, d) ==
    LET key == t.devices[d].key IN
    IF key = DEVICE
    THEN enter_device(g, d, "DEVICE", "RuntimeDeviceAddress", <<>>)
    ELSE IF startswith(key, DEVICE_AT)
    THEN LET match == DEVICE_ADDR_RE_search(key) IN
         IF match = None THEN Raise(g, "ParsingException", "Malformed device address")
         ELSE LET n == IntBase0(match[1]) IN
              IF n = None THEN Raise(g, "ValueError", "invalid literal for int() with base 0")
              ELSE LET g1 == [g EXCEPT !.device_address = n] IN
                   IF n[1] > MaxAddress
                   THEN Raise(g1, "ParsingException", "device address must be <= 254")
                   ELSE enter_device(g1, d, "DEVICE_" \o ToString(n[1]), "u8", n)
    ELSE [g EXCEPT !.dev = d, !.cmd = Len(t.devices[d].cmds) + 1]

(***************************************************************************)
(* CodeGenerator.generate_code.                                            *)
(***************************************************************************)
\* The loop of Operation.to_code over reversed(prototype): pos parameters
\* are done, chain is what is left of the capture chain.
\* An offset that would point at the first byte of the matched field.
argument_offset_of_field(rest, chain_item, param_size) == cmd_size(rest)

\* Lines 749 and 758: the sizes of what is left of the chain, plus the
\* difference of width between the matcher and the parameter.
argument_offset(rest, chain_item, param_size) ==
    cmd_size(rest) + size(chain_item.cls) - param_size

RECURSIVE to_code_loop(_, _, _, _)
to_code_loop(op, pos, chain, values) ==
    IF pos = Len(op.prototype) THEN [err |-> "", values |-> values]
    ELSE IF chain = <<>> THEN [err |-> "IndexError", values |-> values]
    ELSE
    LET param == op.prototype[Len(op.prototype) - pos]
        chain_item == chain[Len(chain)]
        rest == SubSeq(chain, 1, Len(chain) - 1)
        param_size == size(param)
        offset == argument_offset(rest, chain_item, param_size)
        value == [decoder |-> CASE param_size = 1 -> "buffer"
                                [] param_size = 2 -> "ntoh"
                                [] param_size = 4 -> "ntohl",
                  offset |-> offset, param |-> param, matcher |-> chain_item,
                  field |-> cmd_size(rest)]
    IN  IF ~fits(chain_item, param) THEN [err |-> "ParsingException", values |-> values]
        ELSE to_code_loop(op, pos + 1, rest, <<value>> \o values)

\* A to_code that would check nothing.
Operation_to_code_unchecked(op) == [err |-> "", values |-> <<>>]

\* Operation.to_code / NoOperation.to_code
Operation_to_code(op) ==
    IF op.kind = "NoOperation" THEN [err |-> "", values |-> <<>>]
    ELSE to_code_loop(op, 0, op.chain, <<>>)

\* get_callbacks_text: the calls of the operation states, in creation order,
\* up to the first that raises.
RECURSIVE get_callbacks_text(_, _, _)
get_callbacks_text(states, i, calls) ==
    IF i > Len(states) THEN [err |-> "", calls |-> calls]
    ELSE IF ~states[i].isop THEN get_callbacks_text(states, i + 1, calls)
    ELSE LET r == Operation_to_code(states[i].op) IN
         IF r.err # "" THEN [err |-> r.err, calls |-> calls]
         ELSE get_callbacks_text(states, i + 1,
                 Append(calls, [state |-> i, name |-> states[i].op.name, args |-> r.values]))

\* get_read_device_identification looks up the regular objects' count at the
\* extended level (line 1282): a KeyError when none is declared.
read_device_identification_raises(g) ==
    /\ g.conformity_level = EXTENDED_DEVICE_IDENTIFICATION
    /\ ~\E k \in g.identification :
            k \in DOMAIN MEI_OBJECT_CATEGORY
            /\ MEI_OBJECT_CATEGORY[k] = REGULAR_DEVICE_IDENTIFICATION

\* The declared objects of one category, in MEI_OBJECT_CATEGORY's order (by
\* code), as the loop at lines 1254-1258 collects them.
RECURSIVE SortedCodes(_)
SortedCodes(S) ==
    IF S = {} THEN <<>>
    ELSE LET k == CHOOSE x \in S : \A y \in S : x <= y
         IN  <<k>> \o SortedCodes(S \ {k})

all_objects(g, category) ==
    SortedCodes({k \in g.identification \cap DOMAIN MEI_OBJECT_CATEGORY :
                    MEI_OBJECT_CATEGORY[k] = category /\ category <= g.conformity_level})

\* get_read_device_identification: the routine's shape.  counts are the
\* branches that pack the number of objects, packs the branches that pack
\* objects, each under the condition on device_id that guards it.
get_read_device_identification(g) ==
    LET basic == all_objects(g, BASIC_DEVICE_IDENTIFICATION)
        regular == all_objects(g, REGULAR_DEVICE_IDENTIFICATION)
        extended == all_objects(g, EXTENDED_DEVICE_IDENTIFICATION)
        Branch(when, what) == [when |-> when, what |-> what]
    IN
    CASE g.conformity_level = BASIC_DEVICE_IDENTIFICATION ->
            [level |-> g.conformity_level,
             counts |-> <<Branch("always", 3)>>,
             packs |-> <<Branch("always", basic)>>]
      [] g.conformity_level = REGULAR_DEVICE_IDENTIFICATION ->
            [level |-> g.conformity_level,
             counts |-> <<Branch("device_id == 1", 3), Branch("else", 3 + Len(regular))>>,
             packs |-> <<Branch("device_id == 1", basic), Branch("else", regular)>>]
      [] g.conformity_level = EXTENDED_DEVICE_IDENTIFICATION ->
            [level |-> g.conformity_level,
             counts |-> <<Branch("device_id == 1", Len(basic)),
                          Branch("device_id == 2", Len(basic) + Len(regular)),
                          Branch("else", Len(basic) + Len(regular) + Len(extended))>>,
             packs |-> <<Branch("device_id >= 1", basic), Branch("device_id >= 2", regular),
                         Branch("device_id == 3", extended)>>]
      [] OTHER -> NoIdentification

\* get_device_address / set_device_address (lines 1026-1043); only the
\* slave template has the two placeholders (line 1022).
emit_device_address(g) ==
    IF g.mode # "slave" THEN [device_address |-> "", set_device_address |-> FALSE]
    ELSE IF g.device_address = None
    THEN [device_address |-> "runtime", set_device_address |-> TRUE]
    ELSE [device_address |-> "constant", set_device_address |-> FALSE]

generate_code(g) ==
    LET cb == get_callbacks_text(g.states, 1, <<>>) IN
    IF cb.err = "ParsingException" THEN Raise(g, "ParsingException", "Cannot fit")
    ELSE IF cb.err # "" THEN Raise(g, cb.err, "pop from empty list")
    ELSE IF read_device_identification_raises(g) THEN Raise(g, "KeyError", "2")
    ELSE [g EXCEPT !.pc = "generated",
                   !.emitted = [device_address |-> emit_device_address(g).device_address,
                                set_device_address |-> emit_device_address(g).set_device_address,
                                bufsize |-> g.max_buf_size,
                                calls |-> cb.calls,
                                report_slave_id |-> g.conformity_level # 0,
                                read_device_identification |->
                                    get_read_device_identification(g)]]

\* A main that would write whatever there is before looking at the outcome.
main_writes_first(g, output) ==
    [g EXCEPT !.out = [done |-> TRUE,
                       file |-> IF output # None THEN Some(g.emitted) ELSE None,
                       stdout |-> IF output = None
                                  THEN <<[kind |-> "text", text |-> g.emitted]>> ELSE <<>>]]

\* Modbus.main after the two calls (lines 1330-1340): a ParsingException is
\* caught and reported on stdout, any other exception leaves main, and the
\* text goes to the file of --output or to stdout.  output is args.output.
main_output(g, output) ==
    IF g.err = "ParsingException"
    THEN [g EXCEPT !.out = [done |-> TRUE, file |-> None,
                            stdout |-> <<[kind |-> "error", text |-> g.msg]>>]]
    ELSE IF Failed(g)
    THEN [g EXCEPT !.out = [done |-> TRUE, file |-> None, stdout |-> <<>>]]
    ELSE [g EXCEPT !.out = [done |-> TRUE,
                            file |-> IF output # None THEN Some(g.emitted) ELSE None,
                            stdout |-> IF output = None
                                       THEN <<[kind |-> "text", text |-> g.emitted]>>
                                       ELSE <<>>]]

(***************************************************************************)
(* The descriptions the model is run on.                                   *)
(***************************************************************************)
\* Bounds: the matchers of a device's commands in family 1, the commands of
\* the device in family 2, the root keys in family 3.
MaxMatchers == 3
MaxCommands == 2
MaxDevices == 2

Key(suffix) == DEVICE \o suffix

Tree(callbacks, devices, identification, buffer_size, mode) ==
    [callbacks |-> callbacks, devices |-> devices, identification |-> identification,
     buffer_size |-> buffer_size, mode |-> mode, on_received |-> None]

Device(key, cmds) == [key |-> key, cmds |-> cmds]

Callbacks == ("on_a" :> <<>>) @@ ("on_b" :> <<"u8">>) @@ ("on_c" :> <<"u16">>)

\* Family 1: one device, any list of commands over three matchers (two are
\* equal up to the alias, the third overlaps them), with or without a
\* callback, of at most MaxMatchers matchers in total.
TrieMatchers ==
    {u8(3), Matcher("u8", "Exact", <<3>>, "READ_HOLDING_REGISTERS"),
     Matcher("u8", "List", <<3, 4>>, "")}

TrieCommands(n) ==
    {m \o tail : m \in UNION {[1..k -> TrieMatchers] : k \in 1..n},
                 tail \in {<<>>, <<Str("on_a")>>}}

RECURSIVE CommandLists(_)
CommandLists(n) ==
    {<<>>} \cup
    UNION {{<<c>> \o rest : rest \in CommandLists(n - cmd_size(c))} : c \in TrieCommands(n)}

TrieTrees ==
    {Tree(Callbacks, <<Device(Key(<<"@", "1">>), cmds)>>, {}, None, "slave") :
        cmds \in CommandLists(MaxMatchers)}

\* Family 2: one device, up to MaxCommands commands out of the commands of
\* the documented scenarios: a shared prefix of two matchers that diverges
\* on the third, overlapping siblings, a wildcard next to a range, a command
\* without a callback, an undeclared callback.
W100 == Matcher("u16", "Range", <<0, 256>>, "")

ScenarioCommands ==
    {<<u8(3), W100, Str("on_c")>>,
     <<Matcher("u8", "Exact", <<3>>, "READ_HOLDING_REGISTERS"), W100, u8(5), Str("on_b")>>,
     <<u8(3), W100, u8(6), Str("on_a")>>,
     <<u8(3), W100, Matcher("u8", "List", <<5, 6>>, ""), Str("on_b")>>,
     <<u8(3), Matcher("u16", "None", <<>>, ""), Str("on_a")>>,
     <<u8(4), u8(5)>>,
     <<u8(3), W100, u8(5), Str("on_zz")>>}

ScenarioTrees ==
    {Tree(Callbacks, <<Device(Key(<<"@", "0", "x", "0", "1">>), cmds)>>, {}, None, "slave") :
        cmds \in SeqsUpTo(ScenarioCommands, MaxCommands)}

\* Family 3: up to MaxDevices root keys, each with a short or a long
\* command, with or without identification, buffer_size floor, in either mode.
KeyPool ==
    {Key(<<>>), Key(<<"@", "1">>), Key(<<"@", "0", "x", "0", "1">>),
     Key(<<"@", "2", "3">>), Key(<<"@", "0", "x", "1", "7">>)}

ShortCommand == <<u8(3), Str("on_a")>>

LongCommand ==
    <<u8(16), Matcher("u16", "None", <<>>, ""), Matcher("u16", "None", <<>>, ""),
      Matcher("u16", "None", <<>>, ""), Str("on_a")>>

DeviceLists ==
    UNION {{[i \in 1..Len(keys) |-> Device(keys[i], <<pick[i]>>)] :
              pick \in [1..Len(keys) -> {ShortCommand, LongCommand}]} :
           keys \in InjSeqsUpTo(KeyPool, MaxDevices)}

DeviceTrees ==
    {Tree(Callbacks, devices, opt[1], opt[2], opt[3]) :
        devices \in DeviceLists,
        opt \in {<<{}, None, "slave">>, <<{}, Some(16), "slave">>, <<{}, None, "master">>,
                 <<{PRODUCT_CODE}, None, "slave">>,
                 <<{PRODUCT_CODE, MODEL_NAME}, Some(16), "slave">>}}

\* Family 4: one command whose data matcher feeds the one parameter of its
\* callback, over the matcher shapes and the parameter classes.
ParamClasses == {"u8", "u16", "u32", "s8", "s16", "s32"}

FitValues == {-129, -128, -1, 0, 1, 5, 127, 128, 255, 256, 257, 512}

FitMatchers ==
    {m \in
        {Matcher(cls, "None", <<>>, "") : cls \in {"u8", "u16", "u32", "s16"}}
        \cup {Matcher(cls, "Exact", <<v>>, "") : cls \in {"u8", "u16", "s16"}, v \in FitValues}
        \cup {Matcher(cls, "Range", <<a, b>>, "") :
                cls \in {"u16", "s16"}, a \in {-129, -128, 0, 1}, b \in {127, 128, 255, 256, 257, 512}}
        \cup {Matcher(cls, "List", <<a, b>>, "") :
                cls \in {"u16", "s16"}, a \in {-129, -128, 5}, b \in {127, 128, 255, 256}}
     : MatcherInitOk(m)}

FitTrees ==
    {Tree(("on_p" :> <<p>>) @@ Callbacks,
          <<Device(Key(<<"@", "1">>), <<(<<u8(3), m, Str("on_p")>>)>>)>>, {}, None, "slave") :
        m \in FitMatchers, p \in ParamClasses}

\* Family 5: the identification tables over basic, regular, extended and
\* unknown object codes, in the two modes and an unknown one, on a device@
\* key, a bare device key or no device at all.
IdentificationKeys ==
    {VENDOR_NAME, PRODUCT_CODE, VENDOR_URL, MODEL_NAME, PRIVATE_OBJECTS_0, 85}

IdentificationTrees ==
    {Tree(Callbacks, devices, identification, None, mode) :
        devices \in {<<>>, <<Device(DEVICE, <<ShortCommand>>)>>,
                     <<Device(Key(<<"@", "1">>), <<ShortCommand>>)>>},
        identification \in SUBSET IdentificationKeys,
        mode \in {"slave", "master", "other"}}

\* Family 6: one device@ key over well-formed and malformed address
\* literals.
AddressLiterals ==
    {<<>>, <<"1", "F">>, <<"1", "2", "x", "y", "z">>, <<"2", "5", "4">>, <<"2", "5", "5">>,
     <<"0", "x", "F", "F">>, <<"0", "x", "f", "e">>, <<"0", "1", "0">>, <<"0", "x">>,
     <<"0", "b", "1", "1">>, <<"x">>, <<"0">>, <<"7">>, <<"0", "x", "7">>}

AddressTrees ==
    {Tree(Callbacks, <<Device(Key(<<"@">> \o literal), <<cmd>>)>>, {}, None, "slave") :
        literal \in AddressLiterals, cmd \in {ShortCommand, LongCommand}}

\* Family 7: a callback of three parameters on commands of one, two and
\* three matchers (the capture chain has the address matcher in front).
PrototypeTrees ==
    {Tree(("on_w" :> <<"u8", "u8", "u8">>) @@ Callbacks,
          <<Device(Key(<<"@", "1">>), cmds)>>, {}, None, "slave") :
        cmds \in {<<(<<u8(3), Str("on_w")>>)>>,
                  <<(<<u8(3), u8(4), Str("on_w")>>)>>,
                  <<(<<u8(3), u8(4), u8(5), Str("on_w")>>)>>,
                  <<ShortCommand, (<<u8(3), Str("on_w")>>)>>}}

\* Family 8: the documented single command scenario.
SingleCommandTree ==
    Tree("on_read" :> <<"u16">>,
         <<Device(Key(<<"@", "0", "x", "0", "1">>), <<(<<u8(3), W100, Str("on_read")>>)>>)>>,
         {}, None, "slave")

Trees ==
    TrieTrees \cup ScenarioTrees \cup DeviceTrees \cup FitTrees
        \cup IdentificationTrees \cup AddressTrees \cup PrototypeTrees
        \cup {SingleCommandTree}

(***************************************************************************)
(* The build as a state machine.                                           *)
(***************************************************************************)
\* The device being processed still has commands to insert.
CommandsLeft(t, g) == g.dev >= 1 /\ g.cmd <= Len(t.devices[g.dev].cmds)

KeysLeft(t, g) == g.dev < Len(t.devices)

\* One process_sequence call of the loops at lines 1134 and 1152.
insert_command(t, g) ==
    LET r == process_sequence(g, g.address_matcher, g.device_state, t.devices[g.dev].cmds[g.cmd])
    IN  IF r.err # "" THEN r ELSE [r EXCEPT !.cmd = @ + 1]

Init ==
    /\ tree \in Trees
    /\ gen = NewGenerator
    /\ treeB = tree
    /\ genB = NewGenerator
    /\ dec = None

Construct ==
    /\ gen.pc = "start" /\ ~Failed(gen)
    /\ tree' = CodeGenerator__init__(tree, gen).t
    /\ gen' = CodeGenerator__init__(tree, gen).g
    /\ UNCHANGED <<treeB, genB, dec>>

ProcessDevices ==
    /\ gen.pc = "process_devices" /\ ~Failed(gen)
    /\ gen' = process_devices_begin(gen)
    /\ UNCHANGED <<tree, treeB, genB, dec>>

ProcessDevice ==
    /\ gen.pc = "devices" /\ ~Failed(gen)
    /\ ~CommandsLeft(tree, gen)
    /\ KeysLeft(tree, gen)
    /\ gen' = process_device(tree, gen, gen.dev + 1)
    /\ UNCHANGED <<tree, treeB, genB, dec>>

ProcessSequence ==
    /\ gen.pc = "devices" /\ ~Failed(gen)
    /\ CommandsLeft(tree, gen)
    /\ gen' = insert_command(tree, gen)
    /\ UNCHANGED <<tree, treeB, genB, dec>>

GenerateCode ==
    /\ gen.pc = "devices" /\ ~Failed(gen)
    /\ ~CommandsLeft(tree, gen)
    /\ ~KeysLeft(tree, gen)
    /\ gen' = generate_code(gen)
    /\ UNCHANGED <<tree, treeB, genB, dec>>

\* The end of main: the except and else branches of its try statement.
Output ==
    /\ gen.pc = "generated" \/ Failed(gen)
    /\ ~gen.out.done
    /\ \E output \in {None, Some("file")} : gen' = main_output(gen, output)
    /\ UNCHANGED <<tree, treeB, genB, dec>>

Next ==
    Construct \/ ProcessDevices \/ ProcessDevice \/ ProcessSequence \/ GenerateCode \/ Output

Spec == Init /\ [][Next]_vars

(***************************************************************************)
(* Two runs of the generator side by side, on two descriptions that differ *)
(* only in how the device address is written.                              *)
(***************************************************************************)
\* The step the generator takes next on tree t: the same sequencing as Next.
Step(t, g) ==
    CASE Failed(g) -> [t |-> t, g |-> g]
      [] g.pc = "start" -> CodeGenerator__init__(t, g)
      [] g.pc = "process_devices" -> [t |-> t, g |-> process_devices_begin(g)]
      [] g.pc = "devices" /\ CommandsLeft(t, g) -> [t |-> t, g |-> insert_command(t, g)]
      [] g.pc = "devices" /\ ~CommandsLeft(t, g) /\ KeysLeft(t, g) ->
            [t |-> t, g |-> process_device(t, g, g.dev + 1)]
      [] g.pc = "devices" /\ ~CommandsLeft(t, g) /\ ~KeysLeft(t, g) ->
            [t |-> t, g |-> generate_code(g)]
      [] OTHER -> [t |-> t, g |-> g]

Finished(g) == g.pc = "generated" \/ Failed(g)

(***************************************************************************)
(* The vocabulary of the properties: read off the tree and the state list. *)
(***************************************************************************)
\* Same class, same kind of value, same value; the alias does not count.
StructurallyEqual(a, b) == a.cls = b.cls /\ a.kind = b.kind /\ a.vals = b.vals

\* The matchers of a command: its items but the callback name.
MatchersOf(cmd) == SelectSeq(cmd, IsIntegral)

\* The construction went through the whole tree without raising.
Built(t, g) ==
    /\ g.pc \in {"devices", "generated"}
    /\ ~CommandsLeft(t, g)
    /\ ~KeysLeft(t, g)

\* generate_code returned the text.
Accepted(g) == g.pc = "generated"

\* generate_code was called and raised.
RejectedByGenerateCode(t, g) == Built(t, g) /\ g.pc = "devices" /\ Failed(g)

\* The commands of the device being processed that are in the graph.
Inserted(t, g) ==
    IF g.dev = 0 \/ g.pc \notin {"devices", "generated"} THEN {}
    ELSE {c \in DOMAIN t.devices[g.dev].cmds : c < g.cmd}

\* The walks from state s along transitions structurally equal to ms, as
\* sequences of state numbers.
RECURSIVE Paths(_, _, _)
Paths(states, s, ms) ==
    IF ms = <<>> THEN {<<>>}
    ELSE UNION {{<<states[s].transition[i].next>> \o p :
                    p \in Paths(states, states[s].transition[i].next, Tail(ms))} :
                i \in {j \in DOMAIN states[s].transition :
                         StructurallyEqual(states[s].transition[j].matcher, Head(ms))}}

\* The length of the longest common leading run of structurally equal matchers.
RECURSIVE CommonPrefix(_, _)
CommonPrefix(a, b) ==
    IF a = <<>> \/ b = <<>> \/ ~StructurallyEqual(Head(a), Head(b)) THEN 0
    ELSE 1 + CommonPrefix(Tail(a), Tail(b))

\* v is a value of the class (the model's values are all within 32 bits).
\* Then the values a data matcher accepts, as documented: a range holds from
\* (inclusive) to to (exclusive).
InClass(cls, v) ==
    IF bits(cls) = 32 THEN (UnsignedMatcher(cls) => v >= 0) ELSE check(cls, v)

Accepts(m, v) ==
    /\ InClass(m.cls, v)
    /\ CASE m.kind = "None" -> TRUE
         [] m.kind = "Exact" -> v = m.vals[1]
         [] m.kind = "Range" -> m.vals[1] <= v /\ v < m.vals[2]
         [] m.kind = "List" -> v \in Range_(m.vals)

DataClasses == {"u8", "u16", "s8", "s16"}

\* Two data matchers of the same width with a value in common.
Overlap(a, b) ==
    /\ a.cls \in DataClasses /\ b.cls \in DataClasses
    /\ size(a.cls) = size(b.cls)
    /\ \E v \in -129 .. 600 : Accepts(a, v) /\ Accepts(b, v)

\* The pairs of distinct transitions leaving one state.
Siblings(states) ==
    {<<s, i, j>> \in UNION {{<<s, i, j>> : i \in DOMAIN states[s].transition,
                                          j \in DOMAIN states[s].transition} :
                            s \in DOMAIN states} : i < j}

(***************************************************************************)
(* The properties.                                                         *)
(***************************************************************************)
\* C1: two commands of one device whose leading matchers are structurally
\* equal for k matchers go through the same k transitions and states: for
\* every inserted command and every k up to its length there is exactly one
\* walk from the device's state along its first k matchers, and commands
\* with a common prefix of k matchers have the same walk.
PrefixSharing ==
    \A c1 \in Inserted(tree, gen) : \A c2 \in Inserted(tree, gen) :
        LET m1 == MatchersOf(tree.devices[gen.dev].cmds[c1])
            m2 == MatchersOf(tree.devices[gen.dev].cmds[c2])
        IN  \A k \in 1 .. CommonPrefix(m1, m2) :
                /\ Cardinality(Paths(gen.states, gen.device_state, SubSeq(m1, 1, k))) = 1
                /\ Paths(gen.states, gen.device_state, SubSeq(m1, 1, k))
                     = Paths(gen.states, gen.device_state, SubSeq(m2, 1, k))

\* Two inserted commands written with different aliases share a prefix and
\* then diverge.
PrefixSharingWitness ==
    \E c1 \in Inserted(tree, gen) : \E c2 \in Inserted(tree, gen) :
        LET m1 == MatchersOf(tree.devices[gen.dev].cmds[c1])
            m2 == MatchersOf(tree.devices[gen.dev].cmds[c2])
        IN  /\ c1 # c2
            /\ CommonPrefix(m1, m2) >= 1
            /\ CommonPrefix(m1, m2) < Len(m1) /\ CommonPrefix(m1, m2) < Len(m2)
            /\ m1[1].alias # m2[1].alias
            /\ ~Failed(gen)

\* C2: no state has two transitions whose matchers are not structurally
\* equal, have the same width and accept a common value (such a description
\* is rejected instead).
OverlappingSiblingsRejected ==
    \A x \in Siblings(gen.states) :
        LET a == gen.states[x[1]].transition[x[2]].matcher
            b == gen.states[x[1]].transition[x[3]].matcher
        IN  ~(~StructurallyEqual(a, b) /\ Overlap(a, b))

\* C3: no state has two transitions with structurally equal matchers, the
\* initial state of a description with twice the same device address
\* included.
NoEqualSiblings ==
    \A x \in Siblings(gen.states) :
        ~StructurallyEqual(gen.states[x[1]].transition[x[2]].matcher,
                           gen.states[x[1]].transition[x[3]].matcher)

\* The arguments of the emitted calls: the matcher aligned with a parameter
\* and the parameter's class.
Arguments(g) ==
    UNION {{g.emitted.calls[c].args[a] : a \in DOMAIN g.emitted.calls[c].args} :
           c \in DOMAIN g.emitted.calls}

ProbeValues == (-129 .. 600) \cup {-32769, -32768, 32767, 32768, 65535, 65536, 70000}

\* C4: in an accepted build every value the matcher aligned with a callback
\* parameter accepts is representable in the parameter's class.
FitSoundness ==
    Accepted(gen) =>
        \A x \in Arguments(gen) : \A v \in ProbeValues :
            Accepts(x.matcher, v) => InClass(x.param, v)

\* The descriptions with one callback of one parameter, fed by an unsigned
\* Range matcher wider than the unsigned parameter.
RangeFitCases(g) ==
    LET ops == {i \in DOMAIN g.states : g.states[i].isop} IN
    IF Cardinality(ops) # 1 THEN {}
    ELSE {<<g.states[i].op.chain[Len(g.states[i].op.chain)], g.states[i].op.prototype[1]>> :
            i \in {j \in ops :
                     /\ g.states[j].op.kind = "Operation"
                     /\ Len(g.states[j].op.prototype) = 1
                     /\ g.states[j].op.chain[Len(g.states[j].op.chain)].kind = "Range"
                     /\ g.states[j].op.chain[Len(g.states[j].op.chain)].cls \in {"u16", "u32"}
                     /\ g.states[j].op.prototype[1] \in {"u8", "u16"}
                     /\ size(g.states[j].op.prototype[1])
                          < size(g.states[j].op.chain[Len(g.states[j].op.chain)].cls)}}

\* C5: an unsigned Range(from, to) matcher fits a strictly narrower unsigned
\* parameter of pw bits exactly when from >= 0 and to <= 2^pw.
RangeFitRule ==
    (Accepted(gen) \/ RejectedByGenerateCode(tree, gen)) =>
        \A x \in RangeFitCases(gen) :
            Accepted(gen) <=> (x[1].vals[1] >= 0 /\ x[1].vals[2] <= 2^bits(x[2]))

\* C6: in an accepted build no value-less (Any) matcher is aligned with a
\* parameter strictly narrower than the matcher.
AnyNeverFitsNarrower ==
    Accepted(gen) =>
        \A x \in Arguments(gen) :
            ~(x.matcher.kind = "None" /\ size(x.param) < size(x.matcher.cls))

\* C7: the emitted BUFSIZE holds every command of every device key (the
\* injected ones included) plus the address byte, the CRC and one spare
\* byte, and is at least the requested floor.
BufferSizing ==
    Accepted(gen) =>
        /\ \A d \in DOMAIN tree.devices : \A c \in DOMAIN tree.devices[d].cmds :
                cmd_size(tree.devices[d].cmds[c]) + 4 <= gen.emitted.bufsize
        /\ tree.buffer_size # None => gen.emitted.bufsize >= tree.buffer_size[1]

\* C9: a slave description with a bare device key emits the settable
\* device_address with its mutator, the initial state matching against it,
\* and no constant; one with device@<n> keys only emits the constant and no
\* mutator.
RuntimeAddressEmission ==
    (Accepted(gen) /\ gen.mode = "slave") =>
        IF \E d \in DOMAIN tree.devices : tree.devices[d].key = DEVICE
        THEN /\ gen.emitted.device_address = "runtime"
             /\ gen.emitted.set_device_address
             /\ \E i \in DOMAIN gen.states[1].transition :
                    Matcher_to_code(gen.states[1].transition[i].matcher).op = "eq_device_address"
        ELSE tree.devices # <<>> =>
                (gen.emitted.device_address = "constant" /\ ~gen.emitted.set_device_address)

\* The state entered on device number d's address: the keys of a built tree
\* are all device keys, each adding one transition to the initial state.
DeviceState(g, d) == g.states[1].transition[d].next

\* The commands of the tree, as <<device, command>> numbers.
CommandsOf(t) ==
    UNION {{<<d, c>> : c \in DOMAIN t.devices[d].cmds} : d \in DOMAIN t.devices}

\* The states the walk of command x's matchers ends in.
CrcStates(t, g, x) ==
    {p[Len(p)] : p \in Paths(g.states, DeviceState(g, x[1]),
                             MatchersOf(t.devices[x[1]].cmds[x[2]]))}

\* The CRC transitions of state s, and the transitions into state n.
CrcTransitions(g, s) ==
    {i \in DOMAIN g.states[s].transition : g.states[s].transition[i].matcher.cls = "Crc"}

Inbound(g, n) ==
    {y \in UNION {{<<s, i>> : i \in DOMAIN g.states[s].transition} : s \in DOMAIN g.states} :
        g.states[y[1]].transition[y[2]].next = n}

\* The terminal of command x: where the CRC transition after its last
\* matcher leads.
TerminalOf(t, g, x) ==
    LET s == CHOOSE e \in CrcStates(t, g, x) : TRUE
    IN  g.states[s].transition[CHOOSE i \in CrcTransitions(g, s) : TRUE].next

CallbackOf(cmd) == IF IsStr(cmd[Len(cmd)]) THEN cmd[Len(cmd)].s ELSE "NOTHING"

\* C10: in a built graph every command ends, after its last matcher, in one
\* state with one CRC transition to a terminal operation state of its own:
\* the terminal carries the command's callback, its only inbound transition
\* is that CRC transition, and no other command has the same terminal.
UniqueTerminal ==
    Built(tree, gen) =>
        \A x \in CommandsOf(tree) :
            /\ Cardinality(CrcStates(tree, gen, x)) = 1
            /\ \A s \in CrcStates(tree, gen, x) :
                /\ Cardinality(CrcTransitions(gen, s)) = 1
                /\ Inbound(gen, TerminalOf(tree, gen, x))
                     = {<<s, i>> : i \in CrcTransitions(gen, s)}
            /\ gen.states[TerminalOf(tree, gen, x)].isop
            /\ gen.states[TerminalOf(tree, gen, x)].transition = <<>>
            /\ gen.states[TerminalOf(tree, gen, x)].name
                 = "RDY_TO_CALL__" \o upper(CallbackOf(tree.devices[x[1]].cmds[x[2]]))
            /\ CallbackOf(tree.devices[x[1]].cmds[x[2]]) # "NOTHING" =>
                 gen.states[TerminalOf(tree, gen, x)].op.name
                   = CallbackOf(tree.devices[x[1]].cmds[x[2]])
            /\ \A y \in CommandsOf(tree) :
                 y # x => TerminalOf(tree, gen, y) # TerminalOf(tree, gen, x)

\* An accepted build with two commands of one device naming one callback.
UniqueTerminalWitness ==
    /\ Accepted(gen)
    /\ \E x \in CommandsOf(tree) : \E y \in CommandsOf(tree) :
         /\ x[1] = y[1] /\ x[2] # y[2]
         /\ CallbackOf(tree.devices[x[1]].cmds[x[2]]) = "on_a"
         /\ CallbackOf(tree.devices[y[1]].cmds[y[2]]) = "on_a"

(***************************************************************************)
(* The generator run on two descriptions that differ only in how one       *)
(* device address is written: device@<decimal n> and device@0x<hex n>.     *)
(***************************************************************************)
HexStyles == {"lower", "upper", "lower2", "upper2"}

AddrCommands == {<<ShortCommand>>, <<ShortCommand, LongCommand>>}

\* The description with the address written as text, after a bare device
\* key or alone.
AddrTree(text, cmds, bare, identification) ==
    Tree(Callbacks,
         (IF bare THEN <<Device(DEVICE, <<LongCommand>>)>> ELSE <<>>)
            \o <<Device(Key(<<"@">> \o text), cmds)>>,
         identification, None, "slave")

InitAddr ==
    \E n \in 0 .. MaxAddress : \E style \in HexStyles : \E cmds \in AddrCommands :
    \E bare \in BOOLEAN : \E identification \in {{}, {PRODUCT_CODE}} :
        /\ tree = AddrTree(DecimalText(n), cmds, bare, identification)
        /\ treeB = AddrTree(HexLiteral(n, style), cmds, bare, identification)
        /\ gen = NewGenerator
        /\ genB = NewGenerator
        /\ dec = None

\* Both runs take their next step.
BuildBoth ==
    /\ ~(Finished(gen) /\ Finished(genB))
    /\ tree' = Step(tree, gen).t
    /\ gen' = Step(tree, gen).g
    /\ treeB' = Step(treeB, genB).t
    /\ genB' = Step(treeB, genB).g
    /\ UNCHANGED dec

NextAddr == BuildBoth

SpecAddr == InitAddr /\ [][NextAddr]_vars

\* C8: for n <= 254, device@<decimal n> and device@0x<hex n> are both
\* accepted and give the same automaton: the same states in the same order
\* of creation, with the same names, positions, transitions and terminals.
SameAutomaton ==
    (Finished(gen) /\ Finished(genB)) =>
        /\ Accepted(gen) /\ Accepted(genB)
        /\ genB.states = gen.states

\* Both runs are over, on keys that differ, with the address above 9.
SameAutomatonWitness ==
    /\ Accepted(gen) /\ Accepted(genB)
    /\ tree.devices # treeB.devices
    /\ gen.device_address # None /\ gen.device_address[1] > 9
    /\ Len(gen.states) > 3

\* C11: every rejection is the structured error: the run never ends on an
\* exception of another class.
SingleErrorKind == gen.err \in {"", "ParsingException"}

(***************************************************************************)
(* The generator run twice on one tree object: the second CodeGenerator is *)
(* given the tree as the first left it.  treeB keeps the description as it *)
(* was given.                                                              *)
(***************************************************************************)
InitTwice ==
    /\ tree \in DeviceTrees \cup IdentificationTrees
    /\ treeB = tree
    /\ gen = NewGenerator
    /\ genB = NewGenerator
    /\ dec = None

FirstRun ==
    /\ ~Finished(gen)
    /\ tree' = Step(tree, gen).t
    /\ gen' = Step(tree, gen).g
    /\ UNCHANGED <<treeB, genB, dec>>

SecondRun ==
    /\ Finished(gen)
    /\ ~Finished(genB)
    /\ tree' = Step(tree, genB).t
    /\ genB' = Step(tree, genB).g
    /\ UNCHANGED <<treeB, gen, dec>>

NextTwice == FirstRun \/ SecondRun

SpecTwice == InitTwice /\ [][NextTwice]_vars

\* C12: the build leaves the description as it was given, and a second run
\* on the same tree object after an accepted first run is accepted with
\* the same text.
SameTextTwice ==
    /\ tree = treeB
    /\ (Accepted(gen) /\ Finished(genB)) =>
            (Accepted(genB) /\ genB.emitted = gen.emitted)

\* C13: the file and stdout receive the generated text only when build and
\* generation both completed, and then the complete text; a run that raised
\* leaves the file unwritten and no generated text on stdout.
NoPartialArtifact ==
    /\ gen.out.file # None => (Accepted(gen) /\ gen.out.file = Some(gen.emitted))
    /\ \A i \in DOMAIN gen.out.stdout :
            gen.out.stdout[i].kind = "text" =>
                (Accepted(gen) /\ gen.out.stdout[i].text = gen.emitted)
    /\ Failed(gen) =>
            /\ gen.out.file = None
            /\ \A i \in DOMAIN gen.out.stdout : gen.out.stdout[i].kind # "text"

\* main has ended on a structured error raised by generate_code, after the
\* whole graph was built.
NoPartialArtifactWitness ==
    /\ gen.out.done
    /\ RejectedByGenerateCode(tree, gen)
    /\ gen.err = "ParsingException"
    /\ gen.out.file = None

\* The operation states one of whose parameters, aligned right to left with
\* the capture chain, fails the fit check.
Misfits(g) ==
    {i \in DOMAIN g.states :
        /\ g.states[i].isop
        /\ g.states[i].op.kind = "Operation"
        /\ \E k \in 0 .. Len(g.states[i].op.prototype) - 1 :
              /\ k < Len(g.states[i].op.chain)
              /\ ~fits(g.states[i].op.chain[Len(g.states[i].op.chain) - k],
                       g.states[i].op.prototype[Len(g.states[i].op.prototype) - k])}

\* C14, as stated: construction fails on a misfit, so no built graph holds
\* an operation that violates the fit check.
FitCheckedByConstruction == Built(tree, gen) => Misfits(gen) = {}

\* C14: the fit check is generate_code's: a graph that holds an operation
\* violating it is built, and generate_code raises on it and returns no
\* text.
FitCheckedByGenerateCode ==
    /\ Accepted(gen) => Misfits(gen) = {}
    /\ (Built(tree, gen) /\ Misfits(gen) # {} /\ gen.out.done) => Failed(gen)

\* Construction accepted a misfit and generate_code raised on it.
FitCheckedByGenerateCodeWitness ==
    /\ RejectedByGenerateCode(tree, gen)
    /\ Misfits(gen) # {}
    /\ gen.err = "ParsingException"

\* C15: no description with a non-empty identification table without
\* PRODUCT_CODE is accepted.
IdentificationNeedsProductCode ==
    Accepted(gen) => (tree.identification = {} \/ PRODUCT_CODE \in tree.identification)

\* C16: no description with an identification key outside the enumerated
\* object codes is accepted, in either mode.
UnknownIdentificationKeyRejected ==
    Accepted(gen) => tree.identification \subseteq DOMAIN MEI_OBJECT_CATEGORY

\* The identification extension is active and construction is past it.
ExtensionActive(t, g) ==
    /\ t.mode = "slave"
    /\ PRODUCT_CODE \in t.identification
    /\ g.pc \in {"process_devices", "devices", "generated"}

\* The declared objects of a category, by ascending code.
Declared(t, category) ==
    SortedCodes({k \in t.identification \cap DOMAIN MEI_OBJECT_CATEGORY :
                    MEI_OBJECT_CATEGORY[k] = category})

\* The largest category with a declared object.
MaxCategory(t) ==
    IF Declared(t, EXTENDED_DEVICE_IDENTIFICATION) # <<>> THEN EXTENDED_DEVICE_IDENTIFICATION
    ELSE IF Declared(t, REGULAR_DEVICE_IDENTIFICATION) # <<>> THEN REGULAR_DEVICE_IDENTIFICATION
    ELSE BASIC_DEVICE_IDENTIFICATION

\* C17: with the identification extension active, the conformity level the
\* generator holds, and the one the emitted routine packs, is the largest
\* category over the declared objects.
ConformityLevelIsMaxCategory ==
    ExtensionActive(tree, gen) =>
        /\ gen.conformity_level = MaxCategory(tree)
        /\ Accepted(gen) => gen.emitted.read_device_identification.level = MaxCategory(tree)

\* An accepted description declaring basic, regular and extended objects.
ConformityLevelWitness ==
    /\ ExtensionActive(tree, gen)
    /\ Accepted(gen)
    /\ {VENDOR_NAME, PRODUCT_CODE, MODEL_NAME, PRIVATE_OBJECTS_0} \subseteq tree.identification
    /\ gen.emitted.read_device_identification.level = EXTENDED_DEVICE_IDENTIFICATION

\* The condition a branch is emitted under, for a device_id; an else holds
\* when the branch before it does not.
Holds(when, device_id, before) ==
    CASE when = "always" -> TRUE
      [] when = "device_id == 1" -> device_id = 1
      [] when = "device_id == 2" -> device_id = 2
      [] when = "device_id == 3" -> device_id = 3
      [] when = "device_id >= 1" -> device_id >= 1
      [] when = "device_id >= 2" -> device_id >= 2
      [] when = "else" -> ~before

\* The objects the emitted routine packs for a device_id, in order.
RECURSIVE PackedFrom(_, _, _, _)
PackedFrom(packs, i, device_id, before) ==
    IF i > Len(packs) THEN <<>>
    ELSE LET h == Holds(packs[i].when, device_id, before)
         IN  (IF h THEN packs[i].what ELSE <<>>)
                \o PackedFrom(packs, i + 1, device_id, before \/ h)

Packed(g, device_id) ==
    PackedFrom(g.emitted.read_device_identification.packs, 1, device_id, FALSE)

\* C18: at the regular level the emitted routine packs the basic objects
\* only for device_id 1, and the basic objects followed by the regular
\* objects for any other device_id.
RegularReplyShape ==
    (Accepted(gen)
        /\ gen.emitted.read_device_identification.level = REGULAR_DEVICE_IDENTIFICATION) =>
        /\ Packed(gen, 1) = Declared(tree, BASIC_DEVICE_IDENTIFICATION)
        /\ \A device_id \in {2, 3, 4} :
              Packed(gen, device_id)
                = Declared(tree, BASIC_DEVICE_IDENTIFICATION)
                    \o Declared(tree, REGULAR_DEVICE_IDENTIFICATION)

\* The callbacks a command may name: the declared ones and, with the
\* identification extension active, the three it registers.
DeclaredCallbacks(t) ==
    DOMAIN t.callbacks
        \cup (IF t.mode = "slave" /\ PRODUCT_CODE \in t.identification
              THEN {"on_report_slave_id", "on_read_device_identification", "on_diagnostics"}
              ELSE {})

\* The build stopped on the command it was inserting.
StoppedOnCommand(t, g) == g.pc = "devices" /\ Failed(g) /\ CommandsLeft(t, g)

NamesUndeclared(t, cmd) ==
    cmd # <<>> /\ IsStr(cmd[Len(cmd)]) /\ cmd[Len(cmd)].s \notin DeclaredCallbacks(t)

\* C19: a command naming an undeclared callback stops the build with the
\* structured unknown-callback error; every inserted command names a
\* declared callback or none, and no operation state carries an undeclared
\* callback.
UnknownCallbackRejected ==
    /\ \A c \in Inserted(tree, gen) : ~NamesUndeclared(tree, tree.devices[gen.dev].cmds[c])
    /\ \A i \in DOMAIN gen.states :
          (gen.states[i].isop /\ gen.states[i].op.kind = "Operation") =>
              gen.states[i].op.name \in DeclaredCallbacks(tree)
    /\ (StoppedOnCommand(tree, gen)
          /\ NamesUndeclared(tree, tree.devices[gen.dev].cmds[gen.cmd])) =>
              (gen.err = "ParsingException" /\ gen.msg = "Unknown callback")

\* The build stopped on an undeclared callback after inserting a command.
UnknownCallbackWitness ==
    /\ StoppedOnCommand(tree, gen)
    /\ NamesUndeclared(tree, tree.devices[gen.dev].cmds[gen.cmd])
    /\ gen.cmd > 1
    /\ gen.err = "ParsingException"

\* The address literal of a device@ key: well formed when it is a decimal
\* number (no sign, no leading zero but for 0 itself) or 0x and hexadecimal
\* digits, and nothing else.
LiteralOf(key) == From(key, Len(DEVICE_AT) + 1)

WellFormedDecimal(text) ==
    /\ text # <<>>
    /\ \A i \in DOMAIN text : IsDigit(text[i])
    /\ (Len(text) > 1 => text[1] # "0")

WellFormedHex(text) ==
    /\ Len(text) > 2
    /\ text[1] = "0" /\ text[2] = "x"
    /\ \A i \in 3 .. Len(text) : IsHexDigit(text[i])

LiteralValue(text) ==
    IF WellFormedDecimal(text) THEN DigitsValue(text, 10, 0)
    ELSE DigitsValue(From(text, 3), 16, 0)

\* The first root key is a device@ key and process_devices has been at it.
FirstAddressDone(t, g) ==
    /\ t.devices # <<>>
    /\ startswith(t.devices[1].key, DEVICE_AT)
    /\ g.pc \in {"devices", "generated"}
    /\ g.dev >= 1 \/ Failed(g)

\* C20: a device@<literal> key is accepted exactly when the literal is a
\* well-formed decimal or 0x hexadecimal number of value at most 254; any
\* other literal stops the build with the structured error and adds no
\* transition to the initial state.
AddressLiteralRule ==
    FirstAddressDone(tree, gen) =>
        LET text == LiteralOf(tree.devices[1].key) IN
        IF (WellFormedDecimal(text) \/ WellFormedHex(text)) /\ LiteralValue(text) <= MaxAddress
        THEN gen.dev >= 1 /\ Len(gen.states[1].transition) >= 1
        ELSE gen.dev = 0 /\ gen.err = "ParsingException" /\ gen.states[1].transition = <<>>

(***************************************************************************)
(* The names, positions and transitions of the built automaton.            *)
(***************************************************************************)
\* C25: no two states of the state list have the same name, the operation
\* states included, whatever devices and commands were inserted.
StateNamesUnique ==
    \A i \in DOMAIN gen.states : \A j \in DOMAIN gen.states :
        i # j => gen.states[i].name # gen.states[j].name

\* The names of the states in creation order.
StateNames(g) == [i \in DOMAIN g.states |-> g.states[i].name]

\* C26 as stated: the single command scenario creates DEVICE_ADDRESS,
\* DEVICE_1, DEVICE_1_2, DEVICE_1_2__ON_READ__CRC, RDY_TO_CALL__ON_READ in
\* that order.
SingleCommandNamesDocumented ==
    (treeB = SingleCommandTree /\ Built(tree, gen) /\ ~Failed(gen)) =>
        StateNames(gen) = <<"DEVICE_ADDRESS", "DEVICE_1", "DEVICE_1_2",
                            "DEVICE_1_2__ON_READ__CRC", "RDY_TO_CALL__ON_READ">>

\* C26: the single command scenario creates DEVICE_ADDRESS, DEVICE_1,
\* DEVICE_1_1, DEVICE_1_1__ON_READ__CRC, RDY_TO_CALL__ON_READ in that order:
\* the first un-aliased matcher out of a state names its target with index 1.
SingleCommandNames ==
    (treeB = SingleCommandTree /\ Built(tree, gen) /\ ~Failed(gen)) =>
        StateNames(gen) = <<"DEVICE_ADDRESS", "DEVICE_1", "DEVICE_1_1",
                            "DEVICE_1_1__ON_READ__CRC", "RDY_TO_CALL__ON_READ">>

\* The single command scenario went through generate_code.
SingleCommandWitness ==
    treeB = SingleCommandTree /\ Accepted(gen) /\ Len(gen.states) = 5

\* The place in the capture chain of parameter k of an operation, and the
\* bytes of the frame in front of that field.
ArgumentField(op, k) == Len(op.chain) - Len(op.prototype) + k

Preceding(op, k) == cmd_size(SubSeq(op.chain, 1, ArgumentField(op, k) - 1))

\* What the call reads the bytes with, by the number of bytes.
ReaderOf(n) ==
    CASE n = 1 -> "buffer" [] n = 2 -> "ntoh" [] n = 4 -> "ntohl" [] OTHER -> ""

\* C27: the parameters of a callback are aligned with the tail of the
\* capture chain, and a parameter no wider than its matcher is read from the
\* last bytes of the matched field: its offset is the size of what precedes
\* the field plus the difference of the two widths; the single command
\* scenario emits on_read(ntoh(2)).
ArgumentOffsets ==
    Accepted(gen) =>
        /\ \A c \in DOMAIN gen.emitted.calls :
             LET call == gen.emitted.calls[c]
                 op == gen.states[call.state].op
             IN  /\ Len(call.args) = Len(op.prototype)
                 /\ \A k \in DOMAIN call.args :
                      LET m == op.chain[ArgumentField(op, k)]
                          p == op.prototype[k]
                      IN  size(p) <= size(m.cls) =>
                            /\ call.args[k].offset = Preceding(op, k) + size(m.cls) - size(p)
                            /\ call.args[k].offset + size(p) = Preceding(op, k) + size(m.cls)
                            /\ call.args[k].decoder = ReaderOf(size(p))
        /\ treeB = SingleCommandTree =>
             /\ Len(gen.emitted.calls) = 1
             /\ gen.emitted.calls[1].name = "on_read"
             /\ Len(gen.emitted.calls[1].args) = 1
             /\ gen.emitted.calls[1].args[1].decoder = "ntoh"
             /\ gen.emitted.calls[1].args[1].offset = 2

\* An accepted build with a parameter narrower than the field it reads.
ArgumentOffsetsWitness ==
    /\ Accepted(gen)
    /\ \E c \in DOMAIN gen.emitted.calls : \E k \in DOMAIN gen.emitted.calls[c].args :
         LET op == gen.states[gen.emitted.calls[c].state].op
         IN  size(op.prototype[k]) < size(op.chain[ArgumentField(op, k)].cls)

\* The transitions of the graph, as <<state, number>> pairs, and the states
\* that collect the CRC: those with the CRC transition out.
TransitionsOf(g) ==
    UNION {{<<s, i>> : i \in DOMAIN g.states[s].transition} : s \in DOMAIN g.states}

CollectsCrc(g, s) == CrcTransitions(g, s) # {}

Contains(text, part) ==
    \E i \in 1 .. (Len(text) - Len(part) + 1) : SubSeq(text, i, i + Len(part) - 1) = part

\* C28: in an accepted build every transition into an operation state
\* carries the CRC matcher and leaves a state named __CRC, and every
\* transition into a CRC collecting state has set_crc; so no data matcher
\* leads to an operation state.
TerminalsOnlyThroughCrc ==
    Accepted(gen) =>
        \A y \in TransitionsOf(gen) :
            LET tr == gen.states[y[1]].transition[y[2]] IN
            /\ gen.states[tr.next].isop =>
                 /\ tr.matcher.cls = "Crc"
                 /\ Contains(gen.states[y[1]].name, "__CRC")
                 /\ ~gen.states[y[1]].isop
            /\ CollectsCrc(gen, tr.next) => tr.set_crc
            /\ tr.matcher.cls = "Crc" => gen.states[tr.next].isop

\* An accepted build where a CRC collecting state also goes on to a longer
\* command.
TerminalsOnlyThroughCrcWitness ==
    /\ Accepted(gen)
    /\ \E s \in DOMAIN gen.states :
         CollectsCrc(gen, s) /\ Len(gen.states[s].transition) > 1

\* C29 as stated: the target of every transition, the CRC transition into an
\* operation state included, is at the source's position plus the size of
\* the matcher.
PositionsAlongEveryTransition ==
    Built(tree, gen) =>
        \A y \in TransitionsOf(gen) :
            LET tr == gen.states[y[1]].transition[y[2]] IN
            gen.states[tr.next].pos = gen.states[y[1]].pos + size(tr.matcher.cls)

\* C29: the target of every transition into a state that is not an
\* operation state is at the source's position plus the size of the matcher,
\* so its position is the number of bytes consumed to reach it; an operation
\* state is at position 0; and every transition leads to a state created
\* after its source, so the graph is acyclic.
PositionsAlongDataTransitions ==
    Built(tree, gen) =>
        /\ gen.states # <<>> => gen.states[1].pos = 0
        /\ \A y \in TransitionsOf(gen) :
             LET tr == gen.states[y[1]].transition[y[2]] IN
             /\ ~gen.states[tr.next].isop =>
                  /\ gen.states[tr.next].pos = gen.states[y[1]].pos + size(tr.matcher.cls)
                  /\ gen.states[tr.next].pos > gen.states[y[1]].pos
             /\ gen.states[tr.next].isop => gen.states[tr.next].pos = 0
             /\ tr.next > y[1]

\* A built graph with a data transition beyond the function code and an
\* operation state.
PositionsWitness ==
    /\ Built(tree, gen) /\ ~Failed(gen)
    /\ \E y \in TransitionsOf(gen) :
         /\ gen.states[y[1]].pos >= 2
         /\ ~gen.states[gen.states[y[1]].transition[y[2]].next].isop
    /\ \E s \in DOMAIN gen.states : gen.states[s].isop
(***************************************************************************)
(* The emitted decoder: class Datagram of the two templates, with the      *)
(* cases the generator writes into them.  asx::modbus::Crc and error_t are *)
(* not part of the generator: the running CRC is kept as the bytes fed to  *)
(* it since its reset, a CRC byte as the view it was computed over, and an *)
(* error code by its name.                                                 *)
(***************************************************************************)
\* Bounds: the process_char calls of a run, and the bytes of a request the
\* master queues before it listens.
MaxChars == 7
MaxRequest == 3

\* The bytes the decoder is fed, and the values a byte read from a cell that
\* does not hold a received byte can have.
Bytes == {0, 1, 3}

MasterBytes == Bytes \cup {131}

\* A cell of buffer: a byte, an error code, or a half of a computed CRC.
Byte(n) == [k |-> "byte", n |-> n, e |-> "", of |-> <<>>]

ErrorCode(e) == [k |-> "error", n |-> 0, e |-> e, of |-> <<>>]

CrcByte(half, view) == [k |-> half, n |-> 0, e |-> "", of |-> view]

ValuesOf(cell) == IF cell.k = "byte" THEN {cell.n} ELSE MasterBytes

\* buffer[@BUFSIZE@]
BUFSIZE(g) == g.emitted.bufsize

\* The static members of Datagram as the program starts: zero initialised,
\* but for the runtime device address.
Datagram(g) ==
    [state |-> "IGNORE", cnt |-> 0, frame_size |-> 0, error |-> "ok",
     buffer |-> [i \in 1 .. BUFSIZE(g) |-> Byte(0)], crc |-> <<>>,
     device_address |-> 255, expected_address |-> 0, expected_command |-> 0,
     calls |-> <<>>, retval |-> "", oob |-> FALSE, chars |-> 0, phase |-> "idle"]

\* enum class state_t: IGNORE, ERROR, the three master states, then the
\* states of the generator in creation order.  The state a value stands for.
enum_state(g, v) ==
    LET fixed == IF g.mode = "slave" THEN <<"IGNORE", "ERROR">>
                 ELSE <<"IGNORE", "ERROR", "BAD_REQUEST", "BAD_REQUEST__CRC",
                        "BAD_REQUEST_CONFIRMED">>
    IN  IF v < Len(fixed) THEN fixed[v + 1]
        ELSE IF v - Len(fixed) < Len(g.states) THEN g.states[v - Len(fixed) + 1].name
        ELSE "OUT_OF_RANGE"

\* The states of the generator with the given name.
Named(g, name) == {i \in DOMAIN g.states : g.states[i].name = name}

\* A read of buffer[offset]: outside the array any value can come back.
load(g, d, offset) ==
    IF offset >= 0 /\ offset < BUFSIZE(g) THEN ValuesOf(d.buffer[offset + 1]) ELSE MasterBytes

ntoh(g, d, offset) ==
    {hi * 256 + lo : hi \in load(g, d, offset), lo \in load(g, d, offset + 1)}

ntohl(g, d, offset) ==
    {a * 16777216 + b * 65536 + c * 256 + e :
        a \in load(g, d, offset), b \in load(g, d, offset + 1),
        c \in load(g, d, offset + 2), e \in load(g, d, offset + 3)}

\* A store buffer[index] = cell.  Outside the array the behaviour is
\* undefined: the byte is lost, or lands in one of the members declared
\* next to buffer (cnt, error, state).
store(g, d, index, cell) ==
    IF index >= 0 /\ index < BUFSIZE(g) THEN {[d EXCEPT !.buffer[index + 1] = cell]}
    ELSE {[d EXCEPT !.oob = TRUE]}
         \cup {[d EXCEPT !.oob = TRUE, !.cnt = v] : v \in ValuesOf(cell)}
         \cup {[d EXCEPT !.oob = TRUE, !.error = "overwritten"]}
         \cup {[d EXCEPT !.oob = TRUE, !.state = enum_state(g, v)] : v \in ValuesOf(cell)}

\* The device address the guard c == device_address compares with: the
\* constant of get_device_address, or the runtime member.
device_address(g, d) ==
    IF g.device_address = None THEN d.device_address ELSE g.device_address[1]

\* The guard Matcher.to_code writes, evaluated on c; a matcher without
\* value has no guard and its transition is taken.
test(g, d, m, c) ==
    LET code == Matcher_to_code(m) IN
    CASE code.op = "eq" -> c = code.a
      [] code.op = "le" -> c <= code.b
      [] code.op = "ge_le" -> c >= code.a /\ c <= code.b
      [] code.op = "one_of" -> c \in code.set
      [] code.op = "eq_device_address" -> c = device_address(g, d)
      [] OTHER -> TRUE

has_test(m) == Matcher_to_code(m).op \notin {"none", "true"}

\* The else branch of a group (lines 704-712), by the position of the state.
mismatch(d, pos) ==
    IF pos = 0 THEN [d EXCEPT !.error = "ignore_frame", !.state = "IGNORE"]
    ELSE IF pos = 1 THEN [d EXCEPT !.error = "illegal_function_code", !.state = "ERROR"]
    ELSE [d EXCEPT !.error = "illegal_data_value", !.state = "ERROR"]

\* The if / else if chain of a group on the value c: the first transition
\* whose guard holds is taken.
chain(g, d, st, c) ==
    LET hits == {i \in DOMAIN st.transition : test(g, d, st.transition[i].matcher, c)} IN
    IF hits # {}
    THEN [d EXCEPT !.state =
            g.states[st.transition[CHOOSE i \in hits : \A j \in hits : i <= j].next].name]
    ELSE mismatch(d, st.pos)

\* auto c = ntoh(cnt-2) / ntohl(cnt-4): the value a group of a wider
\* matcher tests, read back from the buffer.
field_value(g, d, sz) ==
    IF sz = 2 THEN ntoh(g, d, d.cnt - 2) ELSE ntohl(g, d, d.cnt - 4)

\* TransitionGroup.to_code for the one group of state st: the CRC group
\* waits for the count, a group of one byte tests c, a wider group waits
\* for the count and tests the value read back from the buffer.
group(g, d, st, c) ==
    LET first == st.transition[1]
        sz == size(first.matcher.cls)
    IN
    IF g.states[first.next].isop
    THEN {IF d.cnt = st.pos + sz THEN [d EXCEPT !.state = g.states[first.next].name] ELSE d}
    ELSE IF sz = 1 THEN {chain(g, d, st, c)}
    ELSE IF d.cnt # st.pos + sz THEN {d}
    ELSE {chain(g, d, st, v) : v \in field_value(g, d, sz)}

or80(v) == IF v >= 128 THEN v ELSE v + 128

\* State.to_code: the case of a state, with the two checks of the master
\* in front at positions 0 and 1.
state_case(g, d, st, c) ==
    LET body == IF st.transition = <<>> THEN {d} ELSE group(g, d, st, c) IN
    IF st.mode = "master" /\ st.pos = 0
    THEN UNION {IF c # v THEN {[d EXCEPT !.error = "ignore_frame", !.state = "IGNORE"]}
                ELSE body : v \in load(g, d, 0)}
    ELSE IF st.mode = "master" /\ st.pos = 1
    THEN UNION {IF c = or80(v) THEN {[d EXCEPT !.state = "BAD_REQUEST"]}
                ELSE IF c # v THEN {[d EXCEPT !.state = "ERROR"]}
                ELSE body : v \in load(g, d, 1)}
    ELSE body

\* The switch of process_char on the state: the data states have their
\* case, the operation states fall into what follows them (default in the
\* slave, BAD_REQUEST in the master), anything else is the default.
switch(g, d, c) ==
    LET named == {i \in Named(g, d.state) : ~g.states[i].isop}
        terminal == {i \in Named(g, d.state) : g.states[i].isop}
        default == {[d EXCEPT !.error = "illegal_data_value", !.state = "ERROR"]}
    IN
    IF d.state = "ERROR" THEN {d}
    ELSE IF named # {} THEN state_case(g, d, g.states[CHOOSE i \in named : TRUE], c)
    ELSE IF g.mode = "slave" THEN default
    ELSE IF terminal # {} \/ d.state = "BAD_REQUEST"
    THEN {[d EXCEPT !.state = "BAD_REQUEST__CRC"]}
    ELSE IF d.state = "BAD_REQUEST__CRC"
    THEN {IF d.cnt = 5 THEN [d EXCEPT !.state = "BAD_REQUEST_CONFIRMED"] ELSE d}
    ELSE default

\* Datagram::reset
reset(d) == [d EXCEPT !.cnt = 0, !.crc = <<>>, !.error = "ok", !.state = "DEVICE_ADDRESS"]

\* Datagram::get_status; crc_check is what crc.check() returns.
get_status(d, crc_check) ==
    IF d.state = "IGNORE" THEN "NOT_FOR_ME"
    ELSE IF crc_check THEN "GOOD_FRAME" ELSE "BAD_CRC"

\* What process_char of the slave does before its switch: crc(c) and, but
\* in ERROR, buffer[cnt++] = c (lines 311-316).
before_switch_slave(g, d, c) ==
    LET d1 == [d EXCEPT !.crc = Append(@, Byte(c))] IN
    IF d1.state # "ERROR"
    THEN store(g, [d1 EXCEPT !.cnt = (@ + 1) % 256], d1.cnt, Byte(c))
    ELSE {d1}

\* What process_char of the master does before its switch: crc(c) and
\* ++cnt (lines 129-133); the byte is not in the buffer yet.
before_switch_master(g, d, c) ==
    {[d EXCEPT !.crc = Append(@, Byte(c)), !.cnt = (@ + 1) % 256]}

before_switch(g, d, c) ==
    IF g.mode = "slave" THEN before_switch_slave(g, d, c) ELSE before_switch_master(g, d, c)

\* A process_char that would look at the byte in every state.
process_char_eager(g, d, c) ==
    LET d1 == [d EXCEPT !.crc = Append(@, Byte(c))]
        stored == IF d1.state # "ERROR"
                  THEN store(g, [d1 EXCEPT !.cnt = (@ + 1) % 256], d1.cnt, Byte(c))
                  ELSE {d1}
    IN  UNION {switch(g, x, c) : x \in stored}

\* Datagram::process_char of the slave template (lines 304-327).
process_char_slave(g, d, c) ==
    IF d.state = "IGNORE" THEN {d}
    ELSE UNION {switch(g, x, c) : x \in before_switch_slave(g, d, c)}

\* Datagram::process_char of the master template (lines 122-157): the
\* byte is stored after the switch.
process_char_master(g, d, c) ==
    IF d.state = "IGNORE" THEN {d}
    ELSE UNION {IF x.state # "ERROR" THEN store(g, x, x.cnt - 1, Byte(c)) ELSE {x} :
                x \in UNION {switch(g, y, c) : y \in before_switch_master(g, d, c)}}

process_char(g, d, c) ==
    IF g.mode = "slave" THEN process_char_slave(g, d, c) ELSE process_char_master(g, d, c)

\* The values of the arguments of a call, read from the buffer.
RECURSIVE arguments(_, _, _)
arguments(g, d, args) ==
    IF args = <<>> THEN {<<>>}
    ELSE LET a == Head(args)
             values == CASE a.decoder = "buffer" -> load(g, d, a.offset)
                         [] a.decoder = "ntoh" -> ntoh(g, d, a.offset)
                         [] OTHER -> ntohl(g, d, a.offset)
         IN  {<<v>> \o rest : v \in values, rest \in arguments(g, d, Tail(args))}

\* The case of an operation state in @CALLBACKS@: the call of the callback
\* with its arguments, nothing for a command without callback.  What the
\* callback itself does is not the generator's.
callback(g, d) ==
    LET hits == {c \in DOMAIN g.emitted.calls :
                    g.states[g.emitted.calls[c].state].name = d.state}
    IN  IF hits = {} THEN {d}
        ELSE LET call == g.emitted.calls[CHOOSE c \in hits : TRUE] IN
             IF call.name = "" THEN {d}
             ELSE {[d EXCEPT !.calls = Append(@, [name |-> call.name, args |-> a])] :
                     a \in arguments(g, d, call.args)}

\* The bytes the CRC of a frame is computed over: buffer[0 .. cnt - 1].
view(g, d) == [i \in 1 .. d.cnt |-> IF i <= BUFSIZE(g) THEN d.buffer[i] ELSE Byte(0)]

\* crc.reset(), crc.update(view) and the two stores of the CRC.
append_crc(g, d) ==
    LET d1 == [d EXCEPT !.crc = view(g, d)]
        low == store(g, [d1 EXCEPT !.cnt = (@ + 1) % 256], d1.cnt, CrcByte("crc_lo", view(g, d)))
    IN  UNION {store(g, [x EXCEPT !.cnt = (@ + 1) % 256], x.cnt, CrcByte("crc_hi", view(g, d))) :
               x \in low}

\* The cases ERROR and, through @INCOMPLETE@, every data state.
reply_exception(g, d) ==
    {[d EXCEPT !.buffer[2] = Byte(or80(v)), !.buffer[3] = ErrorCode(d.error), !.cnt = 3] :
        v \in load(g, d, 1)}

\* Datagram::ready_reply of the slave template (lines 361-392).
ready_reply(g, d) ==
    LET d1 == [d EXCEPT !.frame_size = d.cnt, !.cnt = 2, !.phase = "ended"]
        d2 == IF g.on_ready_reply_callback = None THEN d1
              ELSE [d1 EXCEPT !.calls = Append(@, [name |-> g.on_ready_reply_callback[1],
                                                   args |-> <<>>])]
        data == {i \in Named(g, d2.state) : ~g.states[i].isop}
        switched ==
            IF d2.state = "IGNORE" THEN {d2}
            ELSE IF data # {} THEN reply_exception(g, [d2 EXCEPT !.error = "illegal_data_value"])
            ELSE IF d2.state = "ERROR" THEN reply_exception(g, d2)
            ELSE callback(g, d2)
    IN  UNION {IF x.cnt = 2 THEN {[x EXCEPT !.cnt = x.frame_size]} ELSE append_crc(g, x) :
               x \in switched}

\* Datagram::process_reply of the master template (lines 179-197); the
\* value of error_t::unknown_error is not the generator's.
process_reply(g, d) ==
    LET d1 == [d EXCEPT !.phase = "ended"] IN
    IF \E i \in Named(g, d1.state) : g.states[i].isop
    THEN {[x EXCEPT !.retval = "ok"] : x \in callback(g, d1)}
    ELSE IF d1.state = "BAD_REQUEST_CONFIRMED"
    THEN UNION {IF v > 0 THEN {[d1 EXCEPT !.retval = "error_of_reply"],
                               [d1 EXCEPT !.retval = "unknown_error"]}
                ELSE {[d1 EXCEPT !.retval = "unknown_error"]} : v \in load(g, d1, 2)}
    ELSE {[d1 EXCEPT !.retval = "ignore_frame"]}

\* Datagram::initiate_transmit (lines 213-217)
initiate_transmit(d, slave_addr, cmd) ==
    [d EXCEPT !.cnt = 2, !.buffer[1] = Byte(slave_addr), !.buffer[2] = Byte(cmd),
              !.expected_address = slave_addr, !.expected_command = cmd,
              !.phase = "request", !.calls = <<>>, !.retval = ""]

\* Datagram::pack of one byte
pack(g, d, value) == store(g, [d EXCEPT !.cnt = (@ + 1) % 256], d.cnt, Byte(value))

\* Datagram::ready_request (lines 200-206)
ready_request(g, d) == {[x EXCEPT !.phase = "sent"] : x \in append_crc(g, d)}

\* Datagram::set_device_address
set_device_address(d, new_address) == [d EXCEPT !.device_address = new_address]

(***************************************************************************)
(* The decoder of a generated text, driven byte by byte.                   *)
(***************************************************************************)
\* The generator run to its end on a description.
RECURSIVE Run(_, _)
Run(t, g) == IF Finished(g) THEN g ELSE Run(Step(t, g).t, Step(t, g).g)

\* The text is a C++ program when every state has its transitions in one
\* group (one matcher class), a matcher without value has no sibling, and
\* no enumerator is written twice.
Compiles(g) ==
    /\ Accepted(g)
    /\ \A i \in DOMAIN g.states : \A j \in DOMAIN g.states :
         i # j => g.states[i].name # g.states[j].name
    /\ \A s \in DOMAIN g.states :
         LET trs == g.states[s].transition IN
         /\ \A i \in DOMAIN trs : trs[i].matcher.cls = trs[1].matcher.cls
         /\ (\E i \in DOMAIN trs : ~has_test(trs[i].matcher)) => Len(trs) = 1

\* The descriptions the decoder is generated from.  In the slave: the
\* single command scenario on a decimal and on a hex key, two commands that
\* share the function code state, a byte without value, a runtime address
\* with a command without callback, no device at all, the on_received hook.
\* In the master: the single command scenario.
DecoderCallbacks ==
    ("on_a" :> <<>>) @@ ("on_b" :> <<"u8">>) @@ ("on_read" :> <<"u16">>)

SingleCommand == <<u8(3), W100, Str("on_read")>>

DecoderTrees ==
    {Tree(DecoderCallbacks, <<Device(x[1], x[2])>>, {}, None, x[3]) :
        x \in {<<Key(<<"@", "1">>), <<SingleCommand>>, "slave">>,
               <<Key(<<"@", "0", "x", "0", "1">>), <<SingleCommand>>, "slave">>,
               <<Key(<<"@", "1">>),
                 <<(<<u8(3), u8(1), Str("on_a")>>),
                   (<<u8(3), Matcher("u8", "List", <<0, 3>>, ""), Str("on_b")>>)>>, "slave">>,
               <<Key(<<"@", "1">>),
                 <<(<<u8(3), Matcher("u8", "None", <<>>, ""), Str("on_b")>>)>>, "slave">>,
               <<Key(<<>>), <<(<<u8(1)>>)>>, "slave">>,
               <<Key(<<"@", "1">>), <<SingleCommand>>, "master">>}}
    \cup {Tree(DecoderCallbacks, <<>>, {}, None, "slave")}
    \cup {[Tree(DecoderCallbacks, <<Device(Key(<<"@", "1">>), <<(<<u8(3), Str("on_a")>>)>>)>>,
                {}, None, "slave") EXCEPT !.on_received = Some("on_rx")]}

InitDecoder ==
    /\ tree \in {t \in DecoderTrees : Compiles(Run(t, NewGenerator))}
    /\ treeB = tree
    /\ gen = Run(tree, NewGenerator)
    /\ genB = NewGenerator
    /\ dec = Datagram(Run(tree, NewGenerator))

\* After a store outside the array the behaviour of the program is
\* undefined: a run is followed up to the outcome of that store (Defined).
Defined(d) == ~d.oob

SetDeviceAddress ==
    /\ Defined(dec)
    /\ gen.device_address = None /\ gen.mode = "slave"
    /\ dec.phase = "idle"
    /\ \E new_address \in Bytes : dec' = set_device_address(dec, new_address)
    /\ dec' # dec
    /\ UNCHANGED <<tree, gen, treeB, genB>>

InitiateTransmit ==
    /\ Defined(dec)
    /\ gen.mode = "master"
    /\ dec.phase = "idle"
    /\ \E slave_addr \in {1} : \E cmd \in {3} : dec' = initiate_transmit(dec, slave_addr, cmd)
    /\ UNCHANGED <<tree, gen, treeB, genB>>

Pack ==
    /\ Defined(dec)
    /\ gen.mode = "master"
    /\ dec.phase = "request"
    /\ dec.cnt < MaxRequest
    /\ \E value \in Bytes : dec' \in pack(gen, dec, value)
    /\ UNCHANGED <<tree, gen, treeB, genB>>

ReadyRequest ==
    /\ Defined(dec)
    /\ gen.mode = "master"
    /\ dec.phase = "request"
    /\ dec' \in ready_request(gen, dec)
    /\ UNCHANGED <<tree, gen, treeB, genB>>

Reset ==
    /\ Defined(dec)
    /\ dec.phase \in (IF gen.mode = "slave" THEN {"idle", "ended"} ELSE {"sent"})
    /\ dec.chars < MaxChars
    /\ dec' = [reset(dec) EXCEPT !.phase = "frame", !.calls = <<>>, !.retval = ""]
    /\ UNCHANGED <<tree, gen, treeB, genB>>

ProcessChar ==
    /\ Defined(dec)
    /\ dec.phase = "frame"
    /\ dec.chars < MaxChars
    /\ \E c \in (IF gen.mode = "slave" THEN Bytes ELSE MasterBytes) :
         \E d \in process_char(gen, dec, c) : dec' = [d EXCEPT !.chars = @ + 1]
    /\ UNCHANGED <<tree, gen, treeB, genB>>

ReadyReply ==
    /\ Defined(dec)
    /\ gen.mode = "slave"
    /\ dec.phase = "frame"
    /\ dec' \in ready_reply(gen, dec)
    /\ UNCHANGED <<tree, gen, treeB, genB>>

ProcessReply ==
    /\ Defined(dec)
    /\ gen.mode = "master"
    /\ dec.phase = "frame"
    /\ dec' \in process_reply(gen, dec)
    /\ UNCHANGED <<tree, gen, treeB, genB>>

NextDecoder ==
    \/ SetDeviceAddress \/ InitiateTransmit \/ Pack \/ ReadyRequest \/ Reset
    \/ ProcessChar \/ ReadyReply \/ ProcessReply

SpecDecoder == InitDecoder /\ [][NextDecoder]_vars

(***************************************************************************)
(* The decoder on the bytes of a frame.                                    *)
(***************************************************************************)
\* The value of the last n bytes handed to process_char, most significant
\* first: the field the decoder has just received.
RECURSIVE Received(_, _)
Received(d, n) ==
    IF n = 0 THEN 0
    ELSE Received([d EXCEPT !.crc = SubSeq(@, 1, Len(@) - 1)], n - 1) * 256
         + d.crc[Len(d.crc)].n

\* The transitions of the data states guarded by a Range: <<state, index>>.
RangeTransitions ==
    {x \in TransitionsOf(gen) :
        /\ ~gen.states[x[1]].isop
        /\ gen.states[x[1]].transition[x[2]].matcher.kind = "Range"}

\* The width of the field a data state waits for.
FieldSize(s) ==
    IF gen.states[s].transition = <<>> THEN 1
    ELSE size(gen.states[s].transition[1].matcher.cls)

\* The step that hands the decoder the last byte of the field of state s.
CompletesField(s) ==
    /\ ProcessChar
    /\ dec.state = gen.states[s].name
    /\ Len(dec.crc) + 1 = gen.states[s].pos + FieldSize(s)
    /\ Defined(dec')

\* C21: the transition guarded by Range{from, to} is taken for the received
\* field value v exactly when from <= v < to; v = to is not accepted.
RangeHalfOpen ==
    [][\A x \in RangeTransitions :
         LET st == gen.states[x[1]]
             tr == st.transition[x[2]]
             v == Received(dec', size(tr.matcher.cls))
         IN  (CompletesField(x[1]) /\ Len(st.transition) = 1)
             => (dec'.state = gen.states[tr.next].name
                 <=> (tr.matcher.vals[1] <= v /\ v < tr.matcher.vals[2]))]_vars

\* The received field matches none of the sibling predicates of state s.
MatchesNone(s) ==
    \A i \in DOMAIN gen.states[s].transition :
        ~test(gen, dec, gen.states[s].transition[i].matcher, Received(dec', FieldSize(s)))

\* C22: a field that matches none of the sibling predicates of the current
\* state sends the decoder to IGNORE with ignore_frame at position 0, to
\* ERROR with illegal_function_code at position 1, and to ERROR with
\* illegal_data_value at every later position.
MismatchOutcome ==
    [][\A s \in DOMAIN gen.states :
         (~gen.states[s].isop /\ CompletesField(s) /\ MatchesNone(s))
         => <<dec'.state, dec'.error>> =
               CASE gen.states[s].pos = 0 -> <<"IGNORE", "ignore_frame">>
                 [] gen.states[s].pos = 1 -> <<"ERROR", "illegal_function_code">>
                 [] OTHER -> <<"ERROR", "illegal_data_value">>]_vars

\* C23: IGNORE is a sink: a process_char in state IGNORE leaves state, cnt,
\* buffer, error and the running CRC as they are (only reset() leaves the
\* state), and get_status reports NOT_FOR_ME whatever the CRC is.
IgnoreIsSink ==
    /\ [][(ProcessChar /\ dec.state = "IGNORE")
          => /\ dec'.state = "IGNORE"
             /\ dec'.cnt = dec.cnt
             /\ dec'.buffer = dec.buffer
             /\ dec'.error = dec.error
             /\ dec'.crc = dec.crc]_vars
    /\ [](dec.state = "IGNORE" => \A crc_check \in BOOLEAN :
                                     get_status(dec, crc_check) = "NOT_FOR_ME")

\* A frame whose first byte sent the decoder to IGNORE and whose second
\* byte was then handed to process_char.
IgnoredByte ==
    /\ dec.phase = "frame"
    /\ dec.state = "IGNORE"
    /\ dec.frame_size = 0
    /\ dec.chars = 2
    /\ Len(dec.crc) = 1

\* The frame ended in ERROR or in a state that still waits for bytes.
EndsWithoutCommand ==
    \/ dec.state = "ERROR"
    \/ \E s \in Named(gen, dec.state) : ~gen.states[s].isop

\* The reply ready_reply leaves is the exception frame of the given error.
IsExceptionFrame(d, e) ==
    /\ Defined(d)
    /\ d.cnt = 5
    /\ d.buffer[2].k = "byte" /\ d.buffer[2].n >= 128
    /\ d.buffer[3] = ErrorCode(e)
    /\ d.buffer[4] = CrcByte("crc_lo", SubSeq(d.buffer, 1, 3))
    /\ d.buffer[5] = CrcByte("crc_hi", SubSeq(d.buffer, 1, 3))

\* C24: in the slave, a frame that ends in ERROR or in a non-terminal state
\* is answered by an exception frame: top bit of buffer[1] set, the recorded
\* error code in buffer[2] (illegal_data_value for an incomplete frame), a
\* fresh CRC in the next two bytes, length 5, and no user callback called.
ExceptionReply ==
    [][(ReadyReply /\ EndsWithoutCommand)
       => /\ IsExceptionFrame(dec', IF dec.state = "ERROR" THEN dec.error
                                    ELSE "illegal_data_value")
          /\ dec'.calls = dec.calls]_vars

\* C30: in the slave, every byte process_char stores lands inside the
\* buffer, and cnt never exceeds BUFSIZE.
NoStoreOutsideBuffer ==
    [][(ProcessChar /\ gen.mode = "slave")
       => (Defined(dec') /\ dec'.cnt <= BUFSIZE(gen))]_vars

\* The byte the step has handed to process_char.
LastByte(d) == d.crc[Len(d.crc)].n

\* C33: when the predicate of a 16 or 32 bit matcher is evaluated, at
\* cnt = position + size, the value read back by ntoh(cnt-2) / ntohl(cnt-4)
\* is the big-endian value of the last 2 / 4 bytes handed to process_char,
\* in the slave and in the master.
FieldTestedAsReceived ==
    [][\A s \in DOMAIN gen.states :
         (~gen.states[s].isop /\ FieldSize(s) > 1 /\ CompletesField(s))
         => \A x \in before_switch(gen, dec, LastByte(dec')) :
              Defined(x) => field_value(gen, x, FieldSize(s))
                              = {Received(dec', FieldSize(s))}]_vars

(***************************************************************************)
(* The callback calls, the order of the commands and the identification    *)
(* routine of the generated text.                                          *)
(***************************************************************************)
\* C32: for every accepted command and every parameter of its callback,
\* also one wider than its aligned matcher, the emitted offset is not
\* negative and the bytes read, offset .. offset + param_size - 1, all
\* belong to the aligned field.
ExtractionInsideField ==
    Accepted(gen) =>
        \A c \in DOMAIN gen.emitted.calls :
            LET call == gen.emitted.calls[c]
                op == gen.states[call.state].op
            IN  \A k \in DOMAIN call.args :
                    LET m == op.chain[ArgumentField(op, k)]
                        p == op.prototype[k]
                    IN  /\ call.args[k].offset >= 0
                        /\ call.args[k].offset >= Preceding(op, k)
                        /\ call.args[k].offset + size(p) <= Preceding(op, k) + size(m.cls)

\* The commands of one device listed in two orders: a command that is a
\* strict prefix of another, two that overlap on their second byte, others
\* that share nothing.
OrderCallbacks == ("on_a" :> <<>>) @@ ("on_b" :> <<>>) @@ ("on_c" :> <<>>)

OrderPool ==
    {<<u8(3), Str("on_a")>>,
     <<u8(3), u8(1), Str("on_b")>>,
     <<u8(3), Matcher("u8", "List", <<1, 3>>, ""), Str("on_c")>>,
     <<u8(1), Str("on_c")>>,
     <<u8(0), u8(0)>>}

OrderLists ==
    {l \in UNION {[1 .. n -> OrderPool] : n \in 1 .. MaxCommands} :
        \A i \in DOMAIN l : \A j \in DOMAIN l : i # j => l[i] # l[j]}

OrderTree(cmds) ==
    Tree(OrderCallbacks, <<Device(Key(<<"@", "1">>), cmds)>>, {}, None, "slave")

InitOrder ==
    \E cmds \in OrderLists :
    \E other \in {l \in OrderLists : Len(l) = Len(cmds) /\ Range_(l) = Range_(cmds)} :
        /\ tree = OrderTree(cmds)
        /\ treeB = OrderTree(other)
        /\ gen = NewGenerator
        /\ genB = NewGenerator
        /\ dec = None

NextOrder == BuildBoth

SpecOrder == InitOrder /\ [][NextOrder]_vars

\* The terminal the bytes seq lead to from state s of the graph, each byte
\* taking the first transition whose guard it passes; "" when they lead to
\* none.
RECURSIVE Reached(_, _, _)
Reached(g, s, seq) ==
    LET st == g.states[s]
        ends == {i \in DOMAIN st.transition : g.states[st.transition[i].next].isop}
        data == {i \in DOMAIN st.transition :
                    /\ ~g.states[st.transition[i].next].isop
                    /\ test(g, Datagram(g), st.transition[i].matcher, Head(seq))}
    IN  IF seq = <<>>
        THEN IF ends = {} THEN ""
             ELSE g.states[st.transition[CHOOSE i \in ends : \A j \in ends : i <= j].next].name
        ELSE IF data = {} THEN ""
        ELSE Reached(g, st.transition[CHOOSE i \in data : \A j \in data : i <= j].next,
                     Tail(seq))

\* The frames without their CRC: the address and up to two more bytes.
Frames == UNION {[1 .. n -> Bytes] : n \in 0 .. MaxMatchers}

\* C31: whether the build succeeds, and the byte sequences that lead to each
\* callback's terminal, are the same for the commands of a device listed in
\* any order, a strict prefix of another command included.
OrderIndependent ==
    (Finished(gen) /\ Finished(genB)) =>
        /\ Accepted(gen) <=> Accepted(genB)
        /\ (Accepted(gen) /\ Accepted(genB)) =>
              \A seq \in Frames : Reached(gen, 1, seq) = Reached(genB, 1, seq)

\* The 'number of objects' bytes the emitted routine packs for a device_id.
RECURSIVE CountedFrom(_, _, _, _)
CountedFrom(counts, i, device_id, before) ==
    IF i > Len(counts) THEN <<>>
    ELSE LET h == Holds(counts[i].when, device_id, before)
         IN  (IF h THEN <<counts[i].what>> ELSE <<>>)
                \o CountedFrom(counts, i + 1, device_id, before \/ h)

Counted(g, device_id) ==
    CountedFrom(g.emitted.read_device_identification.counts, 1, device_id, FALSE)

\* C34: in every branch of the emitted read-device-identification routine,
\* at each conformity level and for device_id 1, 2 and 3, the number of
\* objects packed is the number of objects packed after it.
ObjectCountMatchesPacked ==
    (Accepted(gen) /\ gen.emitted.read_device_identification.level # 0) =>
        \A device_id \in {1, 2, 3} :
            Counted(gen, device_id) = <<Len(Packed(gen, device_id))>>

====
